---- MODULE Spec2Model ----
(***************************************************************************)
(* Two-tier (memory + disk) cache of the F1 statistics viewer.             *)
(*                                                                         *)
(*   variant = "apex"  : Final - ApexAnalytics/core/data_cache.py          *)
(*   variant = "beta3" : Beta3/data_cache.py                               *)
(*   variant = "dashboard" : Final - Dashboard UI/core/data_cache.py, the  *)
(*                       memory-only DataCache                             *)
(*                                                                         *)
(* A key is a sequence of one-character strings; in the keys the fetch     *)
(* functions build, a literal part and a year are one element each.       *)
(* The ApexAnalytics memory tier is a Python dict whose insertion order    *)
(* decides ties of the eviction scan, so it is a sequence of entries in    *)
(* insertion order; where threads share it, heap holds the objects and the *)
(* hash table of each.  The                                                *)
(* Beta3 memory tier is a dict that is only looked up by key, so it is a   *)
(* function on the keys.  The disk tier maps a file name to the content of *)
(* the file.  Time is an integer clock; expiry_delta is TTL ticks.         *)
(***************************************************************************)
EXTENDS Integers, Sequences, FiniteSets, TLC

VARIABLES variant, now, memory_cache, beta3_memory_cache, disk, faults,
          last, watch, lastSet, threads, heap

vars == <<variant, now, memory_cache, beta3_memory_cache, disk, faults,
          last, watch, lastSet, threads, heap>>

(* ---------------------------- bounds ---------------------------------- *)

\* expiry_delta in clock ticks (24 hours in the source, scaled)
TTL == 1

\* largest clock value
MaxTime == 2

\* largest number of I/O faults (failed writes, failed unlinks, files
\* corrupted from outside) in one run
MaxFaults == 1

\* capacity of the ApexAnalytics memory tier (50 in the source, scaled)
max_memory_items == 2

\* the calls into the cache a worker thread makes before it ends (a fetch
\* function calls get and, after a miss, set)
MaxCalls == 2

(* ----------------------------- data ----------------------------------- *)

Variants == {"apex", "beta3"}

Keys == { <<"a">>, <<"/", ":">>, <<"\\", ":">> }

Values == {"v1", "v2"}

\* the parameters of the fetch functions: a year and a session type are
\* one token each, the name of a race and the id of a driver are strings of
\* characters
Years == { "2031" }

RaceNames == { <<"/", ":">>, <<"\\", ":">> }

ResultsRaces == { <<"\\", ":">> }

ApexRaces == { <<"/", ":">> }

DriverIds == { <<"a">> }

SessionTypes == { "R" }

ConstructorIds == { <<"m">> }

\* a round number: None, the default, or the integer 0
RoundNumbers == { "None", "0" }

\* the cache keys the fetch functions build from their parameters.
\* Beta3 api_utils: f"race_results_{year}_{race_name}"
Beta3_fetch_race_results_cache_key(year, race_name) ==
    <<"race_results_", year, "_">> \o race_name

\* Beta3 api_utils: f"race_schedule_{year}"
Beta3_get_race_schedule_cache_key(year) == <<"race_schedule_", year>>

\* Beta3 fastf1_utils: f"session_{year}_{race_name}"
Beta3_fetch_session_data_cache_key(year, race_name) ==
    <<"session_", year, "_">> \o race_name

\* ApexAnalytics api_utils: f"driver_profile_{driver_id}"
Apex_fetch_driver_profile_cache_key(driver_id) ==
    <<"driver_profile_">> \o driver_id

\* ApexAnalytics api_utils: f"driver_standings_{year}"
Apex_fetch_driver_standings_cache_key(year) == <<"driver_standings_", year>>

\* x or y, of Python, on a round number that may be None
Or(x, y) == IF x \in {"None", "0"} THEN y ELSE x

\* Beta3 api_utils: f"driver_standings_{year}_{round_number or 'final'}"
Beta3_fetch_driver_standings_cache_key(year, round_number) ==
    <<"driver_standings_", year, "_", Or(round_number, "final")>>

\* Beta3 api_utils: f"constructor_standings_{year}_{round_number or 'final'}"
Beta3_fetch_constructor_standings_cache_key(year, round_number) ==
    <<"constructor_standings_", year, "_", Or(round_number, "final")>>

\* ApexAnalytics api_utils: f"driver_career_{driver_id}"
Apex_fetch_driver_career_stats_cache_key(driver_id) ==
    <<"driver_career_">> \o driver_id

\* ApexAnalytics api_utils: f"constructor_profile_{constructor_id}"
Apex_fetch_constructor_profile_cache_key(constructor_id) ==
    <<"constructor_profile_">> \o constructor_id

\* ApexAnalytics fastf1_utils: f"session_{year}_{race}_{session_type}"
Apex_fetch_session_data_cache_key(year, race, session_type) ==
    <<"session_", year, "_">> \o race \o <<"_", session_type>>

\* the keys the fetch functions of each variant can build
Beta3FetchKeys ==
    { Beta3_fetch_race_results_cache_key(y, r) : y \in Years, r \in ResultsRaces }
    \cup { Beta3_get_race_schedule_cache_key(y) : y \in Years }
    \cup { Beta3_fetch_session_data_cache_key(y, r) : y \in Years, r \in RaceNames }
    \cup { Beta3_fetch_driver_standings_cache_key(y, n) :
              y \in Years, n \in RoundNumbers }
    \cup { Beta3_fetch_constructor_standings_cache_key(y, n) :
              y \in Years, n \in RoundNumbers }

ApexFetchKeys ==
    { Apex_fetch_driver_profile_cache_key(d) : d \in DriverIds }
    \cup { Apex_fetch_driver_standings_cache_key(y) : y \in Years }
    \cup { Apex_fetch_driver_career_stats_cache_key(d) : d \in DriverIds }
    \cup { Apex_fetch_constructor_profile_cache_key(c) : c \in ConstructorIds }
    \cup { Apex_fetch_session_data_cache_key(y, r, st) :
              y \in Years, r \in ApexRaces, st \in SessionTypes }

\* Python's None, as a returned value
NoneVal == "None"

\* Python's True and False, as returned values
PyTrue == "True"

PyFalse == "False"

\* outcome of the write of a persisted record: written, open() raised
\* (file untouched), pickle.dump raised (file already truncated by open)
WriteOutcomes == {"ok", "open_fails", "dump_fails"}

(* ------------------------ key -> file name ---------------------------- *)

\* str.replace(old, new) for one-character old and new
Replace(s, old, new) == [i \in DOMAIN s |-> IF s[i] = old THEN new ELSE s[i]]

Apex_get_cache_path(key) ==
    Append(Replace(Replace(Replace(key, "/", "_"), "\\", "_"), ":", "_"), ".pkl")

Beta3_get_cache_path(key) ==
    Append(Replace(Replace(key, "/", "_"), "\\", "_"), ".pkl")

get_cache_path(v, key) ==
    IF v = "apex" THEN Apex_get_cache_path(key) ELSE Beta3_get_cache_path(key)

Files == {get_cache_path(v, k) : v \in Variants, k \in Keys}

\* the files of the keys the fetch functions build
FetchFiles ==
    { Beta3_get_cache_path(k) : k \in Beta3FetchKeys }
    \cup { Apex_get_cache_path(k) : k \in ApexFetchKeys }

(* --------------------------- file content ----------------------------- *)

NoFile == [kind |-> "none", data |-> NoneVal, timestamp |-> 0]

CorruptFile == [kind |-> "corrupt", data |-> NoneVal, timestamp |-> 0]

Record(data, timestamp) == [kind |-> "rec", data |-> data, timestamp |-> timestamp]

\* cache_dir.glob('*.pkl')
Glob(d) == {f \in DOMAIN d : d[f].kind # "none"}

(* ------------------ the ApexAnalytics dict memory_cache --------------- *)

HasKey(mc, key) == \E i \in 1..Len(mc) : mc[i].key = key

IndexOf(mc, key) == CHOOSE i \in 1..Len(mc) : mc[i].key = key

Lookup(mc, key) == mc[IndexOf(mc, key)]

\* del mc[key]
DictDel(mc, key) == SelectSeq(mc, LAMBDA e : e.key # key)

\* mc[key] = (data, timestamp): an existing key keeps its position
DictPut(mc, key, data, timestamp) ==
    LET e == [key |-> key, data |-> data, timestamp |-> timestamp]
    IN IF HasKey(mc, key)
       THEN [i \in 1..Len(mc) |-> IF mc[i].key = key THEN e ELSE mc[i]]
       ELSE Append(mc, e)

\* min(mc.items(), key=lambda x: x[1][1])[0]: the first entry, in insertion
\* order, of minimal timestamp
OldestKey(mc) ==
    LET i == CHOOSE i \in 1..Len(mc) :
                 /\ \A j \in 1..Len(mc) : mc[i].timestamp <= mc[j].timestamp
                 /\ \A j \in 1..(i-1) : mc[j].timestamp > mc[i].timestamp
    IN mc[i].key

\* as _set_memory_cache, but the eviction starts one entry too late
Apex_set_memory_cache_evicts_late(mc, key, data, timestamp) ==
    LET m1 == IF Len(mc) > max_memory_items THEN DictDel(mc, OldestKey(mc)) ELSE mc
    IN DictPut(m1, key, data, timestamp)

\* as _set_memory_cache, but an entry the dict already holds is kept
Apex_set_memory_cache_keeps_entry(mc, key, data, timestamp) ==
    LET m1 == IF Len(mc) >= max_memory_items THEN DictDel(mc, OldestKey(mc)) ELSE mc
    IN IF HasKey(m1, key) THEN m1 ELSE DictPut(m1, key, data, timestamp)

Apex_set_memory_cache(mc, key, data, timestamp) ==
    LET m1 == IF Len(mc) >= max_memory_items THEN DictDel(mc, OldestKey(mc)) ELSE mc
    IN DictPut(m1, key, data, timestamp)

(* ---------------------- the Beta3 dict memory_cache ------------------- *)

Absent == [present |-> FALSE, data |-> NoneVal, timestamp |-> 0]

Entry(data, timestamp) == [present |-> TRUE, data |-> data, timestamp |-> timestamp]

\* {}: no key is present
EmptyDict == [k \in Keys |-> Absent]

\* {} where the keys are those the Beta3 fetch functions build
FetchDict == [k \in Beta3FetchKeys |-> Absent]

\* the dict once it was emptied
Cleared(mc) == [k \in DOMAIN mc |-> Absent]

(* ------------------------------- get ---------------------------------- *)

\* The result of an operation: the two tiers afterwards, the returned
\* value, whether an exception reached the caller, and which branch ran.
Result(mc, d, ret, raised, branch) ==
    [mem |-> mc, disk |-> d, ret |-> ret, raised |-> raised, branch |-> branch]

\* datetime.now() - timestamp < self.expiry_delta, of a memory entry
Apex_memory_fresh(t, timestamp) == t - timestamp < TTL

\* as the expiry test of a record, with the operands of the subtraction
\* exchanged
Apex_record_expired_swapped(t, timestamp) == timestamp - t > TTL

\* datetime.now() - timestamp > self.expiry_delta, of a record read from disk
Apex_record_expired(t, timestamp) == t - timestamp > TTL

\* as the except clause of get, but the exception reaches the caller
Apex_read_error_raises(mc, d) == Result(mc, d, NoneVal, TRUE, "read_error")

\* as the except clause of get, but the unreadable records are removed
Apex_read_error_drops_files(mc, d) ==
    Result(mc, [f \in DOMAIN d |-> IF d[f].kind = "corrupt" THEN NoFile ELSE d[f]],
           NoneVal, FALSE, "read_error")

\* the except clause of get: the error is printed and get returns None
Apex_read_error(mc, d) == Result(mc, d, NoneVal, FALSE, "read_error")

\* as get, but the promoted entry is stamped with the time of the get
Apex_get_stamps_now(mc, d, t, key, use_memory, unlinkOk) ==
    LET hit == use_memory /\ HasKey(mc, key)
        m1  == IF hit THEN DictDel(mc, key) ELSE mc
        f   == Apex_get_cache_path(key)
        rec == d[f]
    IN  IF hit /\ Apex_memory_fresh(t, Lookup(mc, key).timestamp)
        THEN Result(mc, d, Lookup(mc, key).data, FALSE, "memory_hit")
        ELSE IF rec.kind = "none" THEN Result(m1, d, NoneVal, FALSE, "no_file")
        ELSE IF rec.kind = "corrupt" THEN Apex_read_error(m1, d)
        ELSE IF Apex_record_expired(t, rec.timestamp)
             THEN IF unlinkOk
                  THEN Result(m1, [d EXCEPT ![f] = NoFile], NoneVal, FALSE, "disk_expired")
                  ELSE Apex_read_error(m1, d)
        ELSE Result(Apex_set_memory_cache(m1, key, rec.data, t),
                    d, rec.data, FALSE, "promoted")

Apex_get(mc, d, t, key, use_memory, unlinkOk) ==
    LET hit == use_memory /\ HasKey(mc, key)
        m1  == IF hit THEN DictDel(mc, key) ELSE mc
        f   == Apex_get_cache_path(key)
        rec == d[f]
    IN  IF hit /\ Apex_memory_fresh(t, Lookup(mc, key).timestamp)
        THEN Result(mc, d, Lookup(mc, key).data, FALSE, "memory_hit")
        ELSE IF rec.kind = "none" THEN Result(m1, d, NoneVal, FALSE, "no_file")
        ELSE IF rec.kind = "corrupt" THEN Apex_read_error(m1, d)
        ELSE IF Apex_record_expired(t, rec.timestamp)
             THEN IF unlinkOk
                  THEN Result(m1, [d EXCEPT ![f] = NoFile], NoneVal, FALSE, "disk_expired")
                  ELSE Apex_read_error(m1, d)
        ELSE Result(Apex_set_memory_cache(m1, key, rec.data, rec.timestamp),
                    d, rec.data, FALSE, "promoted")

\* datetime.now() - timestamp < self.expiry_delta, of a memory entry
Beta3_memory_fresh(t, timestamp) == t - timestamp < TTL

\* datetime.now() - timestamp > self.expiry_delta, of a record read from disk
Beta3_record_expired(t, timestamp) == t - timestamp > TTL

\* the except clause of get: the error is printed and get returns None
Beta3_read_error(mc, d) == Result(mc, d, NoneVal, FALSE, "read_error")

Beta3_get(mc, d, t, key, unlinkOk) ==
    LET hit == mc[key].present
        m1  == IF hit THEN [mc EXCEPT ![key] = Absent] ELSE mc
        f   == Beta3_get_cache_path(key)
        rec == d[f]
    IN  IF hit /\ Beta3_memory_fresh(t, mc[key].timestamp)
        THEN Result(mc, d, mc[key].data, FALSE, "memory_hit")
        ELSE IF rec.kind = "none" THEN Result(m1, d, NoneVal, FALSE, "no_file")
        ELSE IF rec.kind = "corrupt" THEN Beta3_read_error(m1, d)
        ELSE IF Beta3_record_expired(t, rec.timestamp)
             THEN IF unlinkOk
                  THEN Result(m1, [d EXCEPT ![f] = NoFile], NoneVal, FALSE, "disk_expired")
                  ELSE Beta3_read_error(m1, d)
        ELSE Result([m1 EXCEPT ![key] = Entry(rec.data, rec.timestamp)],
                    d, rec.data, FALSE, "promoted")

(* ------------------------------- set ---------------------------------- *)

\* open(cache_path, 'wb') followed by pickle.dump((data, timestamp), f)
WriteRecord(d, f, data, timestamp, wr) ==
    IF wr = "ok" THEN [d EXCEPT ![f] = Record(data, timestamp)]
    ELSE IF wr = "dump_fails" THEN [d EXCEPT ![f] = CorruptFile]
    ELSE d

\* as set, but a failed write takes the entry back out of the memory tier
Apex_set_rolls_back(mc, d, t, key, data, persist, wr) ==
    LET m1 == Apex_set_memory_cache(mc, key, data, t)
    IN  IF persist
        THEN Result(IF wr = "ok" THEN m1 ELSE DictDel(m1, key),
                    WriteRecord(d, Apex_get_cache_path(key), data, t, wr),
                    IF wr = "ok" THEN PyTrue ELSE PyFalse, FALSE,
                    IF wr = "ok" THEN "written" ELSE "write_error")
        ELSE Result(m1, d, PyTrue, FALSE, "memory_only")

Apex_set(mc, d, t, key, data, persist, wr) ==
    LET m1 == Apex_set_memory_cache(mc, key, data, t)
    IN  IF persist
        THEN Result(m1, WriteRecord(d, Apex_get_cache_path(key), data, t, wr),
                    IF wr = "ok" THEN PyTrue ELSE PyFalse, FALSE,
                    IF wr = "ok" THEN "written" ELSE "write_error")
        ELSE Result(m1, d, PyTrue, FALSE, "memory_only")

Beta3_set(mc, d, t, key, data, wr) ==
    Result([mc EXCEPT ![key] = Entry(data, t)],
           WriteRecord(d, Beta3_get_cache_path(key), data, t, wr),
           NoneVal, FALSE, IF wr = "ok" THEN "written" ELSE "write_error")

(* ------------------------------ delete -------------------------------- *)

\* as delete, but the record file is left in place
Apex_delete_keeps_file(mc, d, key, unlinkOk) ==
    LET m1 == DictDel(mc, key)
        f  == Apex_get_cache_path(key)
    IN  IF d[f].kind # "none"
        THEN IF unlinkOk
             THEN Result(m1, d, PyTrue, FALSE, "unlinked")
             ELSE Result(m1, d, PyFalse, FALSE, "unlink_error")
        ELSE Result(m1, d, PyTrue, FALSE, "no_file")

\* as delete, but the whole memory tier is dropped
Apex_delete_empties_memory(mc, d, key, unlinkOk) ==
    LET m1 == <<>>
        f  == Apex_get_cache_path(key)
    IN  IF d[f].kind # "none"
        THEN IF unlinkOk
             THEN Result(m1, [d EXCEPT ![f] = NoFile], PyTrue, FALSE, "unlinked")
             ELSE Result(m1, d, PyFalse, FALSE, "unlink_error")
        ELSE Result(m1, d, PyTrue, FALSE, "no_file")

Apex_delete(mc, d, key, unlinkOk) ==
    LET m1 == DictDel(mc, key)
        f  == Apex_get_cache_path(key)
    IN  IF d[f].kind # "none"
        THEN IF unlinkOk
             THEN Result(m1, [d EXCEPT ![f] = NoFile], PyTrue, FALSE, "unlinked")
             ELSE Result(m1, d, PyFalse, FALSE, "unlink_error")
        ELSE Result(m1, d, PyTrue, FALSE, "no_file")

Beta3_delete(mc, d, key, unlinkOk) ==
    LET m1 == [mc EXCEPT ![key] = Absent]
        f  == Beta3_get_cache_path(key)
    IN  IF d[f].kind # "none"
        THEN IF unlinkOk
             THEN Result(m1, [d EXCEPT ![f] = NoFile], NoneVal, FALSE, "unlinked")
             ELSE Result(m1, d, NoneVal, TRUE, "unlink_error")
        ELSE Result(m1, d, NoneVal, FALSE, "no_file")

(* ----------------------------- clear_all ------------------------------ *)

\* the loop over glob('*.pkl'); stuck: the files whose unlink raises
ClearFiles(d, stuck) ==
    [f \in DOMAIN d |-> IF d[f].kind # "none" /\ f \notin stuck THEN NoFile ELSE d[f]]

\* deleted_count: one for every file of the glob whose unlink did not raise
Apex_deleted_count(d, stuck) == Cardinality(Glob(d) \ stuck)

\* as clear_all, but the memory tier is not cleared
Apex_clear_all_keeps_memory(mc, d, stuck) ==
    [mem |-> mc, disk |-> ClearFiles(d, stuck), ret |-> NoneVal, raised |-> FALSE,
     branch |-> "cleared", count |-> Apex_deleted_count(d, stuck)]

Apex_clear_all(mc, d, stuck) ==
    [mem |-> <<>>, disk |-> ClearFiles(d, stuck), ret |-> NoneVal, raised |-> FALSE,
     branch |-> "cleared", count |-> Apex_deleted_count(d, stuck)]

\* the Beta3 clear_all has no return statement
Beta3_clear_all(mc, d, stuck) ==
    [mem |-> Cleared(mc), disk |-> ClearFiles(d, stuck), ret |-> NoneVal, raised |-> FALSE,
     branch |-> "cleared", count |-> -1]

(* ---------------------------- construction ---------------------------- *)

\* the object that CacheManager._instance refers to
SharedInstance == "CacheManager._instance"

\* __new__(cls), _instance being set: it takes no argument besides cls, so
\* a call CacheManager(...) that passes arguments raises TypeError
Apex_new(with_args) ==
    IF with_args THEN [ret |-> NoneVal, raised |-> TRUE]
    ELSE [ret |-> SharedInstance, raised |-> FALSE]

\* __init__: it returns at once when _initialized is set, and starts with
\* an empty memory tier otherwise
Apex_init(mc, initialized) == IF initialized THEN mc ELSE <<>>

\* CacheManager(...) after the first construction
Apex_construct(mc, d, with_args) ==
    LET n == Apex_new(with_args)
    IN  IF n.raised THEN Result(mc, d, NoneVal, TRUE, "type_error")
        ELSE Result(Apex_init(mc, TRUE), d, n.ret, FALSE, "shared")

\* the module function get_cache()
Apex_get_cache(mc, d) == Apex_construct(mc, d, FALSE)

(* --------------------------- state machine ---------------------------- *)

NoKey == <<>>

\* a call: its arguments and what it returned
Call(op, key, data, flag, r, count) ==
    [op |-> op, key |-> key, data |-> data, flag |-> flag, ret |-> r.ret,
     raised |-> r.raised, count |-> count, t |-> now]

NoCall ==
    [op |-> "init", key |-> NoKey, data |-> NoneVal, flag |-> FALSE,
     ret |-> NoneVal, raised |-> FALSE, count |-> -1, t |-> 0]

OtherCall ==
    [op |-> "other", key |-> NoKey, data |-> NoneVal, flag |-> FALSE,
     ret |-> NoneVal, raised |-> FALSE, count |-> -1, t |-> 0]

\* last is the most recent call.  A run that watches one key (watch # NoKey)
\* observes the calls on that key only, without their time and value, which
\* the history of that key holds.
Observe(c) ==
    IF watch = NoKey THEN c
    ELSE IF c.key = watch THEN [c EXCEPT !.t = 0, !.data = NoneVal]
    ELSE OtherCall

\* History of the watched key: the value and the time of its most recent
\* set, and whether that set returned False (its write failed) with no
\* delete of the key and no clear_all after it.
NeverSet == [data |-> NoneVal, t |-> 0, failed |-> FALSE]

\* The other history a run may keep of the watched key: the values that
\* were passed to set with the key so far.
NoValues == [values |-> {}]

KeepsValues == "values" \in DOMAIN lastSet

NoteSet(key, data, t, ret) ==
    IF key # watch THEN lastSet
    ELSE IF KeepsValues THEN [values |-> lastSet.values \cup {data}]
    ELSE [data |-> data, t |-> t, failed |-> (ret = PyFalse)]

NoteRemoval(key) ==
    IF watch # NoKey /\ key \in {watch, NoKey} /\ ~KeepsValues
    THEN [lastSet EXCEPT !.failed = FALSE]
    ELSE lastSet

\* a run of one caller on one CacheManager: no worker thread, and no
\* CacheManager object besides the one memory_cache or beta3_memory_cache
\* belongs to
NoThreads == <<>>

NoHeap == <<>>

StartStore ==
    /\ now = 0
    /\ memory_cache = <<>>
    /\ beta3_memory_cache = EmptyDict
    /\ disk = [f \in Files |-> NoFile]
    /\ faults = 0
    /\ last = NoCall
    /\ lastSet = NeverSet

Start ==
    /\ threads = NoThreads
    /\ heap = NoHeap
    /\ variant \in Variants
    /\ StartStore

Init ==
    /\ Start
    /\ watch = NoKey

\* the keys whose history a run may watch: one that shares its record file
\* with no other key and one that shares it
Watched == { <<"a">>, <<"/", ":">> }

InitHist ==
    /\ Start
    /\ watch \in Watched

\* datetime.now() advances
Tick ==
    /\ now < MaxTime
    /\ now' = now + 1
    /\ UNCHANGED <<threads, heap, variant, memory_cache, beta3_memory_cache, disk, faults,
                   last, watch, lastSet>>

\* garbage bytes are written into an existing record file from outside
Corrupt(f) ==
    /\ faults < MaxFaults
    /\ disk[f].kind = "rec"
    /\ disk' = [disk EXCEPT ![f] = CorruptFile]
    /\ faults' = faults + 1
    /\ UNCHANGED <<threads, heap, variant, now, memory_cache, beta3_memory_cache, last, watch, lastSet>>

\* Beta3 __init__: every construction of a Beta3 CacheManager starts with an
\* empty memory tier over the directory as it is (the ApexAnalytics
\* singleton is initialised once in the life of the process)
Beta3Construct ==
    /\ variant = "beta3"
    /\ beta3_memory_cache # EmptyDict
    /\ beta3_memory_cache' = EmptyDict
    /\ last' = Observe(NoCall)
    /\ UNCHANGED <<threads, heap, variant, now, memory_cache, disk, faults, watch, lastSet>>

\* CacheManager() or CacheManager(cache_dir, expiry_hours) of ApexAnalytics,
\* the singleton being already constructed
ApexConstruct(with_args) ==
    /\ variant = "apex"
    /\ LET r == Apex_construct(memory_cache, disk, with_args)
       IN  /\ memory_cache' = r.mem
           /\ disk' = r.disk
           /\ last' = Observe(Call("construct", NoKey, NoneVal, with_args, r, -1))
    /\ UNCHANGED <<threads, heap, variant, now, beta3_memory_cache, faults, watch, lastSet>>

ApexGetCache ==
    /\ variant = "apex"
    /\ LET r == Apex_get_cache(memory_cache, disk)
       IN  /\ memory_cache' = r.mem
           /\ disk' = r.disk
           /\ last' = Observe(Call("get_cache", NoKey, NoneVal, FALSE, r, -1))
    /\ UNCHANGED <<threads, heap, variant, now, beta3_memory_cache, faults, watch, lastSet>>

\* an I/O fault is injected only where the code performs that I/O, and
\* only while the run's budget allows one
Fault(injected, attempted) ==
    /\ injected => (attempted /\ faults < MaxFaults)
    /\ faults' = IF injected THEN faults + 1 ELSE faults

ApexGet(key, use_memory, unlinkOk) ==
    /\ variant = "apex"
    /\ Fault(~unlinkOk,
             Apex_get(memory_cache, disk, now, key, use_memory, TRUE).branch = "disk_expired")
    /\ LET r == Apex_get(memory_cache, disk, now, key, use_memory, unlinkOk)
       IN  /\ memory_cache' = r.mem
           /\ disk' = r.disk
           /\ last' = Observe(Call("get", key, NoneVal, use_memory, r, -1))
    /\ UNCHANGED <<threads, heap, variant, now, beta3_memory_cache, watch, lastSet>>

Beta3Get(key, unlinkOk) ==
    /\ variant = "beta3"
    /\ Fault(~unlinkOk,
             Beta3_get(beta3_memory_cache, disk, now, key, TRUE).branch = "disk_expired")
    /\ LET r == Beta3_get(beta3_memory_cache, disk, now, key, unlinkOk)
       IN  /\ beta3_memory_cache' = r.mem
           /\ disk' = r.disk
           /\ last' = Observe(Call("get", key, NoneVal, TRUE, r, -1))
    /\ UNCHANGED <<threads, heap, variant, now, memory_cache, watch, lastSet>>

ApexSet(key, data, persist, wr) ==
    /\ variant = "apex"
    /\ Fault(wr # "ok", persist)
    /\ LET r == Apex_set(memory_cache, disk, now, key, data, persist, wr)
       IN  /\ memory_cache' = r.mem
           /\ disk' = r.disk
           /\ last' = Observe(Call("set", key, data, persist, r, -1))
           /\ lastSet' = NoteSet(key, data, now, r.ret)
    /\ UNCHANGED <<threads, heap, variant, now, beta3_memory_cache, watch>>

Beta3Set(key, data, wr) ==
    /\ variant = "beta3"
    /\ Fault(wr # "ok", TRUE)
    /\ LET r == Beta3_set(beta3_memory_cache, disk, now, key, data, wr)
       IN  /\ beta3_memory_cache' = r.mem
           /\ disk' = r.disk
           /\ last' = Observe(Call("set", key, data, TRUE, r, -1))
           /\ lastSet' = NoteSet(key, data, now, r.ret)
    /\ UNCHANGED <<threads, heap, variant, now, memory_cache, watch>>

ApexDelete(key, unlinkOk) ==
    /\ variant = "apex"
    /\ Fault(~unlinkOk, disk[Apex_get_cache_path(key)].kind # "none")
    /\ LET r == Apex_delete(memory_cache, disk, key, unlinkOk)
       IN  /\ memory_cache' = r.mem
           /\ disk' = r.disk
           /\ last' = Observe(Call("delete", key, NoneVal, FALSE, r, -1))
    /\ lastSet' = NoteRemoval(key)
    /\ UNCHANGED <<threads, heap, variant, now, beta3_memory_cache, watch>>

Beta3Delete(key, unlinkOk) ==
    /\ variant = "beta3"
    /\ Fault(~unlinkOk, disk[Beta3_get_cache_path(key)].kind # "none")
    /\ LET r == Beta3_delete(beta3_memory_cache, disk, key, unlinkOk)
       IN  /\ beta3_memory_cache' = r.mem
           /\ disk' = r.disk
           /\ last' = Observe(Call("delete", key, NoneVal, FALSE, r, -1))
    /\ lastSet' = NoteRemoval(key)
    /\ UNCHANGED <<threads, heap, variant, now, memory_cache, watch>>

ApexClearAll(stuck) ==
    /\ variant = "apex"
    /\ stuck \subseteq Glob(disk)
    /\ faults + Cardinality(stuck) <= MaxFaults
    /\ faults' = faults + Cardinality(stuck)
    /\ LET r == Apex_clear_all(memory_cache, disk, stuck)
       IN  /\ memory_cache' = r.mem
           /\ disk' = r.disk
           /\ last' = Observe(Call("clear_all", NoKey, NoneVal, FALSE, r, r.count))
    /\ lastSet' = NoteRemoval(NoKey)
    /\ UNCHANGED <<threads, heap, variant, now, beta3_memory_cache, watch>>

Beta3ClearAll(stuck) ==
    /\ variant = "beta3"
    /\ stuck \subseteq Glob(disk)
    /\ faults + Cardinality(stuck) <= MaxFaults
    /\ faults' = faults + Cardinality(stuck)
    /\ LET r == Beta3_clear_all(beta3_memory_cache, disk, stuck)
       IN  /\ beta3_memory_cache' = r.mem
           /\ disk' = r.disk
           /\ last' = Observe(Call("clear_all", NoKey, NoneVal, FALSE, r, r.count))
    /\ lastSet' = NoteRemoval(NoKey)
    /\ UNCHANGED <<threads, heap, variant, now, memory_cache, watch>>

Next ==
    \/ Tick
    \/ \E f \in Files : Corrupt(f)
    \/ Beta3Construct
    \/ \E args \in BOOLEAN : ApexConstruct(args)
    \/ ApexGetCache
    \/ \E k \in Keys, um \in BOOLEAN, uok \in BOOLEAN : ApexGet(k, um, uok)
    \/ \E k \in Keys, uok \in BOOLEAN : Beta3Get(k, uok)
    \/ \E k \in Keys, v \in Values, p \in BOOLEAN, wr \in WriteOutcomes : ApexSet(k, v, p, wr)
    \/ \E k \in Keys, v \in Values, wr \in WriteOutcomes : Beta3Set(k, v, wr)
    \/ \E k \in Keys, uok \in BOOLEAN : ApexDelete(k, uok)
    \/ \E k \in Keys, uok \in BOOLEAN : Beta3Delete(k, uok)
    \/ \E stuck \in SUBSET Files : ApexClearAll(stuck)
    \/ \E stuck \in SUBSET Files : Beta3ClearAll(stuck)

Spec == Init /\ [][Next]_vars

SpecHist == InitHist /\ [][Next]_vars

\* a run that keeps, of the watched key, the values passed to set
InitIsolation ==
    /\ threads = NoThreads
    /\ heap = NoHeap
    /\ variant \in Variants
    /\ now = 0
    /\ memory_cache = <<>>
    /\ beta3_memory_cache = EmptyDict
    /\ disk = [f \in Files |-> NoFile]
    /\ faults = 0
    /\ last = NoCall
    /\ lastSet = NoValues
    /\ watch \in Watched

SpecIsolation == InitIsolation /\ [][Next]_vars

(* ---- filling the store: sets of distinct keys, then get of one key ---- *)

InitFill ==
    /\ InitHist
    /\ variant = "apex"

\* the one set of the watched key
FillSetWatched(data, persist, wr) ==
    /\ lastSet = NeverSet
    /\ ApexSet(watch, data, persist, wr)

\* a set of another key; last stays the most recent call on the watched key
FillSetOther(key, data, persist, wr) ==
    /\ variant = "apex"
    /\ key # watch
    /\ Fault(wr # "ok", persist)
    /\ LET r == Apex_set(memory_cache, disk, now, key, data, persist, wr)
       IN  /\ memory_cache' = r.mem
           /\ disk' = r.disk
    /\ UNCHANGED <<threads, heap, variant, now, beta3_memory_cache, last, watch, lastSet>>

FillGetWatched(unlinkOk) == ApexGet(watch, TRUE, unlinkOk)

NextFill ==
    \/ Tick
    \/ \E v \in Values, p \in BOOLEAN, wr \in WriteOutcomes : FillSetWatched(v, p, wr)
    \/ \E k \in Keys, v \in Values, p \in BOOLEAN, wr \in WriteOutcomes :
          FillSetOther(k, v, p, wr)
    \/ \E uok \in BOOLEAN : FillGetWatched(uok)

SpecFill == InitFill /\ [][NextFill]_vars

(* ------------------------- reading the state -------------------------- *)

InMemory(k) ==
    IF variant = "apex" THEN HasKey(memory_cache, k) ELSE beta3_memory_cache[k].present

MemoryEntry(k) ==
    IF variant = "apex" THEN Lookup(memory_cache, k) ELSE beta3_memory_cache[k]

MemoryEmpty ==
    IF variant = "apex" THEN memory_cache = <<>> ELSE beta3_memory_cache = EmptyDict

\* the memory tier holds an entry of k younger than ttl
FreshInMemory(k) == InMemory(k) /\ now - MemoryEntry(k).timestamp < TTL

FileOf(k) == get_cache_path(variant, k)

\* The step is a call of get: its key and its use_memory are those of last'.
IsGet ==
    /\ last'.op = "get"
    /\ \E uok \in BOOLEAN :
          \/ ApexGet(last'.key, last'.flag, uok)
          \/ Beta3Get(last'.key, uok)

\* The step is a call of set whose write ended as wr.
IsSet(wr) ==
    /\ last'.op = "set"
    /\ \/ ApexSet(last'.key, last'.data, last'.flag, wr)
       \/ Beta3Set(last'.key, last'.data, wr)

\* The step is a call of delete.
IsDelete ==
    /\ last'.op = "delete"
    /\ \E uok \in BOOLEAN :
          \/ ApexDelete(last'.key, uok)
          \/ Beta3Delete(last'.key, uok)

\* The step is a call of clear_all; the files it could not delete are the
\* files that remain.
IsClearAll ==
    /\ last'.op = "clear_all"
    /\ \/ ApexClearAll(Glob(disk'))
       \/ Beta3ClearAll(Glob(disk'))

(* ------------------------------ claims -------------------------------- *)

\* C1: write-then-read.  A get(k) that follows a set(k, v) with no call in
\* between and less than ttl later returns v, in both variants, whatever the
\* two tiers held before the set.
C1_WriteThenRead ==
    [][ (last.op = "set" /\ IsGet /\ last'.key = last.key /\ last'.flag
         /\ now - last.t < TTL)
        => last'.ret = last.data ]_vars

\* a get returned a value that only the memory tier holds, the memory tier
\* being full: the record file of the key is missing or unreadable
C1_Witness ==
    /\ variant = "apex"
    /\ last.op = "get" /\ last.flag /\ last.ret \in Values
    /\ Len(memory_cache) = max_memory_items
    /\ InMemory(last.key) /\ MemoryEntry(last.key).data = last.ret
    /\ disk[FileOf(last.key)].kind # "rec"

\* C5: a failed write is reported without rollback.  In ApexAnalytics, set
\* raises nothing; when the write of set(k, v, persist=True) fails, set
\* returns False and the memory tier holds (v, now) for k; with persist=False
\* set returns True and the disk tier is unchanged.
C5_WriteFailureNoRollback ==
    [][ \A wr \in WriteOutcomes :
          (variant = "apex" /\ IsSet(wr)) =>
            /\ ~last'.raised
            /\ (last'.flag /\ wr # "ok") =>
                  /\ last'.ret = PyFalse
                  /\ HasKey(memory_cache', last'.key)
                  /\ Lookup(memory_cache', last'.key).data = last'.data
                  /\ Lookup(memory_cache', last'.key).timestamp = now
            /\ ~last'.flag => (last'.ret = PyTrue /\ disk' = disk) ]_vars

\* a set has just returned False and the memory tier holds its value and time
C5_Witness ==
    /\ variant = "apex"
    /\ last.op = "set" /\ last.ret = PyFalse /\ last.t = now
    /\ HasKey(memory_cache, last.key)
    /\ Lookup(memory_cache, last.key).data = last.data
    /\ Lookup(memory_cache, last.key).timestamp = now

\* C6 as stated: for every key whose record file is corrupt, get(k) returns
\* None and raises nothing, in both variants.
C6_CorruptRecordReadsAbsent ==
    [][ (IsGet /\ last'.flag /\ disk[FileOf(last'.key)].kind = "corrupt")
        => (last'.ret = NoneVal /\ ~last'.raised) ]_vars

\* C6 as amended: for every key whose record file is corrupt, get raises
\* nothing; it returns None unless the memory tier is consulted and holds an
\* entry of k younger than ttl, and then it returns that entry's value.
C6_CorruptRecordNeverRaises ==
    [][ (IsGet /\ disk[FileOf(last'.key)].kind = "corrupt")
        => /\ ~last'.raised
           /\ last'.ret = IF last'.flag /\ FreshInMemory(last'.key)
                          THEN MemoryEntry(last'.key).data ELSE NoneVal ]_vars

\* a get has returned None for a key whose record file is corrupt
C6_Witness ==
    /\ last.op = "get" /\ last.ret = NoneVal /\ ~last.raised
    /\ disk[FileOf(last.key)].kind = "corrupt"
    /\ ~InMemory(last.key)

\* C7: corrupt records self-heal.  When get(k) reaches a record file of k
\* that cannot be deserialized, it returns None and the file no longer exists
\* after the get.
C7_CorruptRecordRemoved ==
    [][ (IsGet /\ disk[FileOf(last'.key)].kind = "corrupt"
         /\ ~(last'.flag /\ FreshInMemory(last'.key)))
        => (last'.ret = NoneVal /\ disk'[FileOf(last'.key)].kind = "none") ]_vars

\* C9 as stated: clear_all raises nothing; after it the memory tier is
\* empty, the directory holds no *.pkl file, and get returns None.
C9_ClearAllLeavesNothing ==
    [][ /\ IsClearAll => (~last'.raised /\ MemoryEmpty' /\ Glob(disk') = {})
        /\ (last.op = "clear_all" /\ IsGet) => last'.ret = NoneVal ]_vars

\* C9 as amended: clear_all raises nothing, on an empty store too; after it
\* the memory tier is empty and the directory holds only *.pkl files whose
\* deletion failed, unchanged (none when no deletion fails); and a get of a
\* key that has neither a memory entry nor a record file returns None and
\* changes neither tier, so every get after a clear_all whose deletions
\* succeeded returns None.
C9_ClearAllExhaustive ==
    [][ /\ IsClearAll =>
             /\ ~last'.raised
             /\ MemoryEmpty'
             /\ Cardinality(Glob(disk')) = faults' - faults
             /\ \A f \in Glob(disk') : disk'[f] = disk[f]
        /\ (IsGet /\ ~InMemory(last'.key) /\ disk[FileOf(last'.key)].kind = "none")
             => /\ last'.ret = NoneVal /\ ~last'.raised
                /\ disk' = disk
                /\ memory_cache' = memory_cache
                /\ beta3_memory_cache' = beta3_memory_cache ]_vars

\* a clear_all has removed two record files and left both tiers empty
C9_Witness ==
    /\ last.op = "clear_all" /\ last.count = 2
    /\ MemoryEmpty /\ Glob(disk) = {}

\* C10: clear_all returns the number of record files it removed: 0 when
\* the directory holds none, and else the count of the files deleted,
\* entries of the memory tier not counted.
C10_ClearAllReturnsCount ==
    [][ IsClearAll => last'.count = Cardinality(Glob(disk) \ Glob(disk')) ]_vars

(* ---------------- claims about the history of one key ----------------- *)

\* no other key is mapped to the record file of k
SharesNoFile(k) == \A k2 \in Keys \ {k} : FileOf(k2) # FileOf(k)

\* C2 as stated: expiry.  When the most recent set of k is more than ttl
\* old, get(k) returns None, and after it neither the memory tier nor the
\* disk tier holds a record of k.
C2_Expiry ==
    [][ (IsGet /\ last'.key = watch /\ last'.flag
         /\ lastSet.data # NoneVal /\ now - lastSet.t > TTL)
        => /\ last'.ret = NoneVal
           /\ ~InMemory(watch)'
           /\ disk'[FileOf(watch)].kind # "rec" ]_vars

\* C2 as amended: when the most recent set of k is more than ttl old and no
\* other key is mapped to the record file of k, get(k) returns None; after
\* it the memory tier holds no entry of k, and the disk tier holds a record
\* of k only if the deletion of the expired file failed.
C2_ExpiryOfUnsharedKey ==
    [][ (IsGet /\ last'.key = watch /\ last'.flag /\ SharesNoFile(watch)
         /\ lastSet.data # NoneVal /\ now - lastSet.t > TTL)
        => /\ last'.ret = NoneVal /\ ~last'.raised
           /\ ~InMemory(watch)'
           /\ disk'[FileOf(watch)].kind = "rec" => faults' = faults + 1 ]_vars

\* a get of a key set more than ttl ago has returned None; no fault has
\* happened and neither tier holds anything of the key, while the store
\* still holds another key
C2_Witness ==
    /\ last.op = "get" /\ last.key = watch /\ last.ret = NoneVal
    /\ SharesNoFile(watch)
    /\ lastSet.data # NoneVal /\ now - lastSet.t > TTL
    /\ faults = 0
    /\ ~InMemory(watch) /\ disk[FileOf(watch)].kind = "none"
    /\ Glob(disk) # {}

\* C3: freshness.  In ApexAnalytics a get(k) that returns a value returns
\* the value of the most recent set(k, .).  Stated of a key that shares its
\* record file with no other key, of a get made less than ttl after that
\* set, in runs where no I/O fails.
C3_Freshness ==
    [][ (variant = "apex" /\ IsGet /\ last'.key = watch /\ last'.flag
         /\ SharesNoFile(watch) /\ faults' = 0
         /\ lastSet.data # NoneVal /\ now - lastSet.t < TTL)
        => last'.ret \in {NoneVal, lastSet.data} ]_vars

\* C4: memory stays authoritative after a failed write.  In ApexAnalytics,
\* when the most recent set(k, v) returned False, is less than ttl old and
\* was followed by no delete(k) and no clear_all, get(k) returns v.  Stated
\* of a key that shares its record file with no other key.
C4_MemoryAuthoritative ==
    [][ (variant = "apex" /\ IsGet /\ last'.key = watch /\ last'.flag
         /\ SharesNoFile(watch)
         /\ lastSet.failed /\ now - lastSet.t < TTL)
        => last'.ret = lastSet.data ]_vars

\* C8 as stated: idempotent delete.  delete(k) of a key that was never set
\* raises nothing, reports success and leaves both tiers unchanged; and a
\* get(k) that follows a delete(k) returns None.
C8_IdempotentDelete ==
    [][ /\ (IsDelete /\ last'.key = watch /\ lastSet.data = NoneVal)
           => /\ ~last'.raised
              /\ variant = "apex" => last'.ret = PyTrue
              /\ memory_cache' = memory_cache
              /\ beta3_memory_cache' = beta3_memory_cache
              /\ disk' = disk
        /\ (last.op = "delete" /\ last.key = watch /\ IsGet /\ last'.key = watch)
           => last'.ret = NoneVal ]_vars

\* C8 as amended: delete(k) of a key that was never set and that shares its
\* record file with no other key raises nothing, reports success (True in
\* ApexAnalytics, a normal return in Beta3) and leaves both tiers unchanged;
\* and a get(k) that follows a delete(k) which neither raised nor returned
\* False returns None.
C8_DeleteThenAbsent ==
    [][ /\ (IsDelete /\ last'.key = watch /\ lastSet.data = NoneVal
            /\ SharesNoFile(watch))
           => /\ ~last'.raised
              /\ variant = "apex" => last'.ret = PyTrue
              /\ memory_cache' = memory_cache
              /\ beta3_memory_cache' = beta3_memory_cache
              /\ disk' = disk
        /\ (last.op = "delete" /\ last.key = watch /\ ~last.raised
            /\ last.ret # PyFalse /\ IsGet /\ last'.key = watch)
           => last'.ret = NoneVal ]_vars

\* a delete(k) of a key that was set has returned normally, no fault has
\* happened and neither tier holds anything of k, while the store still
\* holds another key
C8_Witness ==
    /\ last.op = "delete" /\ last.key = watch /\ ~last.raised
    /\ last.ret # PyFalse
    /\ lastSet.data # NoneVal
    /\ faults = 0
    /\ ~InMemory(watch) /\ disk[FileOf(watch)].kind = "none"
    /\ Glob(disk) # {}

(* ------------------- claims about the memory tier --------------------- *)

\* the memory tier holds an entry of k after the step
InMemoryAfter(k) ==
    IF variant = "apex" THEN HasKey(memory_cache', k) ELSE beta3_memory_cache'[k].present

\* C11: memory bound.  In ApexAnalytics the memory tier never holds more
\* than max_memory_items entries.
C11_MemoryBound == Len(memory_cache) <= max_memory_items

\* the memory tier is full and the key "a", whose record no fault, delete or
\* expiry has touched, has been evicted from it
C11_Witness ==
    /\ variant = "apex" /\ faults = 0 /\ now = 0
    /\ Len(memory_cache) = max_memory_items
    /\ ~HasKey(memory_cache, <<"a">>)
    /\ disk[FileOf(<<"a">>)].kind = "rec"

\* C13 as stated: memory is never older than disk.  In ApexAnalytics, when
\* a key has a memory entry and the disk tier holds a record under its file
\* name, the entry's timestamp is not smaller than the record's.
C13_MemoryNotOlderThanDisk ==
    \A k \in Keys :
        (variant = "apex" /\ HasKey(memory_cache, k)
         /\ disk[Apex_get_cache_path(k)].kind = "rec")
        => Lookup(memory_cache, k).timestamp >= disk[Apex_get_cache_path(k)].timestamp

\* C13 as amended: the same, for every key that shares its record file with
\* no other key.
C13_MemoryNotOlderThanOwnRecord ==
    \A k \in Keys :
        (variant = "apex" /\ SharesNoFile(k) /\ HasKey(memory_cache, k)
         /\ disk[Apex_get_cache_path(k)].kind = "rec")
        => Lookup(memory_cache, k).timestamp >= disk[Apex_get_cache_path(k)].timestamp

\* a key that shares its file with no other key has a memory entry younger
\* than its record
C13_Witness ==
    \E k \in Keys :
        /\ variant = "apex" /\ SharesNoFile(k) /\ HasKey(memory_cache, k)
        /\ disk[Apex_get_cache_path(k)].kind = "rec"
        /\ Lookup(memory_cache, k).timestamp > disk[Apex_get_cache_path(k)].timestamp

\* C14: disk expiry boundary.  When get(k) consults the memory tier and
\* misses, and the record of k has age now - timestamp >= ttl (age = ttl
\* included), get returns None, promotes nothing and, unless the unlink
\* fails, deletes the record.
C14_DiskExpiryBoundary ==
    [][ (IsGet /\ last'.flag /\ ~FreshInMemory(last'.key)
         /\ disk[FileOf(last'.key)].kind = "rec"
         /\ now - disk[FileOf(last'.key)].timestamp >= TTL)
        => /\ last'.ret = NoneVal
           /\ ~InMemoryAfter(last'.key)
           /\ faults' = faults => disk'[FileOf(last'.key)].kind = "none" ]_vars

\* C20: eviction happens only on overflow.  In ApexAnalytics a set or a get
\* removes another key from the memory tier only when the tier is full and
\* the key of the call is not in it.
C20_EvictionOnlyOnOverflow ==
    [][ (variant = "apex" /\ last'.op \in {"set", "get"})
        => \A k2 \in Keys \ {last'.key} :
              (HasKey(memory_cache, k2) /\ ~HasKey(memory_cache', k2))
              => (Len(memory_cache) >= max_memory_items
                  /\ ~HasKey(memory_cache, last'.key)) ]_vars

\* C17: singleton lifecycle.  In ApexAnalytics every construction of
\* CacheManager, with or without arguments, and every get_cache() returns
\* the shared instance and resets nothing.
C17_SingletonLifecycle ==
    [][ (variant = "apex" /\ last'.op \in {"construct", "get_cache"})
        => /\ ~last'.raised
           /\ last'.ret = SharedInstance
           /\ memory_cache' = memory_cache
           /\ disk' = disk ]_vars

\* The step inserts a key into the full ApexAnalytics memory tier.
Overflows ==
    /\ variant = "apex"
    /\ Len(memory_cache) = max_memory_items
    /\ \E k \in Keys : HasKey(memory_cache', k) /\ ~HasKey(memory_cache, k)

\* After the step the tier holds max_memory_items keys; the one key gone is
\* the key of the smallest timestamp, the first inserted if several entries
\* have it.
EvictsOldest ==
    /\ Len(memory_cache') = max_memory_items
    /\ \E i \in 1..Len(memory_cache) :
          /\ \A j \in 1..Len(memory_cache) :
                memory_cache[j].timestamp >= memory_cache[i].timestamp
          /\ \A j \in 1..(i - 1) :
                memory_cache[j].timestamp > memory_cache[i].timestamp
          /\ ~HasKey(memory_cache', memory_cache[i].key)
          /\ \A j \in 1..Len(memory_cache) :
                j # i => HasKey(memory_cache', memory_cache[j].key)

\* C12: eviction of the oldest entry.  On a store that is filled by sets of
\* distinct keys, an insertion into the full memory tier leaves
\* max_memory_items keys and removes the key of the oldest timestamp; and
\* the first get of a key that was set less than ttl ago and evicted returns
\* its value if it was set with persist=True and None if with
\* persist=False.  Stated of a key that shares its record file with no
\* other key.
C12_EvictionOfOldest ==
    [][ /\ Overflows => EvictsOldest
        /\ (IsGet /\ last.op = "set" /\ ~HasKey(memory_cache, watch)
            /\ now - lastSet.t < TTL /\ SharesNoFile(watch))
           => last'.ret = IF last.flag THEN lastSet.data ELSE NoneVal ]_vars

(***************************************************************************)
(* The cache users of the Beta3 application.  api_utils reaches its       *)
(* CacheManager through get_cache(), fastf1_utils constructs its own at   *)
(* import and the main window constructs a third; all three take the      *)
(* default directory 'app_cache', so they share the record files and keep *)
(* one memory tier each.  heap holds the memory tier of each user's       *)
(* object, _global_cache being None until the first get_cache().          *)
(***************************************************************************)
Users == { "api_utils", "fastf1_utils", "ui_main" }

\* the keys the users of this scenario work on
UserKeys == { <<"a">> }

\* Beta3 __init__: a new object with an empty memory tier
Beta3_init == EmptyDict

\* get_cache(): constructs the global CacheManager on first use; the heap
\* holds the reference _global_cache and the memory tier of the object it
\* refers to
Beta3_get_cache(h) ==
    IF h._global_cache = NoneVal
    THEN [h EXCEPT !._global_cache = "CacheManager",
                   !.api_utils = Cleared(h.api_utils)]
    ELSE h

\* the heap once the user has reached its CacheManager, and the memory tier
\* of that CacheManager
Reached(h, u) == IF u = "api_utils" THEN Beta3_get_cache(h) ELSE h

ManagerOf(h, u) == Reached(h, u)[u]

StoreManager(h, u, mc) == [Reached(h, u) EXCEPT ![u] = mc]

UserCall(u, c) == [user |-> u] @@ c

InitUsers ==
    /\ StartStore
    /\ variant = "beta3"
    /\ watch = NoKey
    /\ threads = NoThreads
    /\ heap = [_global_cache |-> NoneVal,
               api_utils |-> EmptyDict,
               fastf1_utils |-> Beta3_init,
               ui_main |-> Beta3_init]

UserGet(u, key, unlinkOk) ==
    /\ Fault(~unlinkOk,
             Beta3_get(ManagerOf(heap, u), disk, now, key, TRUE).branch = "disk_expired")
    /\ LET r == Beta3_get(ManagerOf(heap, u), disk, now, key, unlinkOk)
       IN  /\ heap' = StoreManager(heap, u, r.mem)
           /\ disk' = r.disk
           /\ last' = UserCall(u, Call("get", key, NoneVal, TRUE, r, -1))
    /\ UNCHANGED <<threads, variant, now, memory_cache, beta3_memory_cache,
                   watch, lastSet>>

UserSet(u, key, data, wr) ==
    /\ Fault(wr # "ok", TRUE)
    /\ LET r == Beta3_set(ManagerOf(heap, u), disk, now, key, data, wr)
       IN  /\ heap' = StoreManager(heap, u, r.mem)
           /\ disk' = r.disk
           /\ last' = UserCall(u, Call("set", key, data, TRUE, r, -1))
    /\ UNCHANGED <<threads, variant, now, memory_cache, beta3_memory_cache,
                   watch, lastSet>>

UserDelete(u, key, unlinkOk) ==
    /\ Fault(~unlinkOk, disk[Beta3_get_cache_path(key)].kind # "none")
    /\ LET r == Beta3_delete(ManagerOf(heap, u), disk, key, unlinkOk)
       IN  /\ heap' = StoreManager(heap, u, r.mem)
           /\ disk' = r.disk
           /\ last' = UserCall(u, Call("delete", key, NoneVal, FALSE, r, -1))
    /\ UNCHANGED <<threads, variant, now, memory_cache, beta3_memory_cache,
                   watch, lastSet>>

UserClearAll(u, stuck) ==
    /\ stuck \subseteq Glob(disk)
    /\ faults + Cardinality(stuck) <= MaxFaults
    /\ faults' = faults + Cardinality(stuck)
    /\ LET r == Beta3_clear_all(ManagerOf(heap, u), disk, stuck)
       IN  /\ heap' = StoreManager(heap, u, r.mem)
           /\ disk' = r.disk
           /\ last' = UserCall(u, Call("clear_all", NoKey, NoneVal, FALSE, r, r.count))
    /\ UNCHANGED <<threads, variant, now, memory_cache, beta3_memory_cache,
                   watch, lastSet>>

NextUsers ==
    \/ Tick
    \/ \E u \in Users, k \in UserKeys, uok \in BOOLEAN : UserGet(u, k, uok)
    \/ \E u \in Users, k \in UserKeys, v \in Values, wr \in WriteOutcomes :
          UserSet(u, k, v, wr)
    \/ \E u \in Users, k \in UserKeys, uok \in BOOLEAN : UserDelete(u, k, uok)
    \/ \E u \in Users, stuck \in SUBSET Files : UserClearAll(u, stuck)

SpecUsers == InitUsers /\ [][NextUsers]_vars

(***************************************************************************)
(* Claims about the users of the Beta3 store                               *)
(***************************************************************************)

\* C18: in Beta3, once delete(k) or clear_all() has returned through one
\* cache user without a failed removal, get(k) through any other user
\* returns absent.
C18_OneStorePerNamespace ==
    [][ ( /\ last.op \in {"delete", "clear_all"}
          /\ last'.op = "get"
          /\ last'.user # last.user
          /\ last.key \in {NoKey, last'.key}
          /\ disk[Beta3_get_cache_path(last'.key)] = NoFile )
        => last'.ret = NoneVal ]_vars

(***************************************************************************)
(* Worker threads on a shared CacheManager.  Each thread runs one call at  *)
(* a time; pc is the line of data_cache.py it will execute next.  A step   *)
(* is one access to shared state: one operation on the dict memory_cache   *)
(* (the interpreter makes a single dict operation atomic and may switch    *)
(* threads between two of them), one reading of the clock, or one system   *)
(* call on a record file (exists, open, the read or the write of the       *)
(* record, unlink).  The scan of line 130 calls a Python lambda for every  *)
(* entry, so other threads run between two entries: it is one step per     *)
(* call of next() on the dict's iterator.  No lock is taken anywhere in    *)
(* the class.  heap holds the CacheManager objects and the reference the   *)
(* class attribute _instance (the module global _global_cache in Beta3)    *)
(* holds; an object has its memory_cache and, in ApexAnalytics, the hash   *)
(* table behind it, which decides what an iterator meets once the dict has *)
(* changed under it.                                                       *)
(***************************************************************************)
Threads == { "t1", "t2" }

ThreadKeys == { <<"a">>, <<"/", ":">> }

ThreadValues == { "v1" }

NoError == "None"

(* ------- the hash table of the dict and its iterator (CPython 3.11) ---- *)

\* dk_entries has one slot per key inserted since the table was allocated,
\* TRUE while the entry is live, FALSE once it was deleted; dk_usable is
\* the number of slots left.  {} and clear() leave the shared empty table.
EmptyTable == [dk_entries |-> <<>>, dk_usable |-> 0]

\* the number of live entries in the first j slots
LiveUpTo(tb, j) == Cardinality({ x \in 1..j : tb.dk_entries[x] })

\* the slot of the i-th entry of the dict
SlotOf(tb, i) ==
    CHOOSE j \in 1..Len(tb.dk_entries) : tb.dk_entries[j] /\ LiveUpTo(tb, j) = i

\* USABLE_FRACTION(n) = (n << 1) / 3
USABLE_FRACTION(n) == (2 * n) \div 3

\* calculate_log2_keysize(GROWTH_RATE(mp)), GROWTH_RATE being 3 * ma_used:
\* 1 << bit_length(((minsize | 8) - 1) | 7)
NewKeysSize(used) ==
    IF used = 0 THEN 8 ELSE IF 3 * used < 16 THEN 16 ELSE 32

\* dictresize: the live entries move, in order, to the front of a new table
dictresize(used) ==
    [dk_entries |-> [i \in 1..used |-> TRUE],
     dk_usable |-> USABLE_FRACTION(NewKeysSize(used)) - used]

\* the table after mc[key] = ...: an existing key keeps its slot, a new one
\* takes the next slot, after a resize if none is left
TablePut(tb, mc, key) ==
    IF HasKey(mc, key) THEN tb
    ELSE LET t1 == IF tb.dk_usable = 0 THEN dictresize(Len(mc)) ELSE tb
         IN [dk_entries |-> Append(t1.dk_entries, TRUE),
             dk_usable |-> t1.dk_usable - 1]

\* the table after del mc[key]: the slot stays, empty
TableDel(tb, mc, key) ==
    [tb EXCEPT !.dk_entries[SlotOf(tb, IndexOf(mc, key))] = FALSE]

\* dictiter_iternextitem: the iterator was created on a dict of di_used
\* entries, stands after slot di_pos and may still yield len entries.  A
\* dict of another size raises "dictionary changed size during iteration";
\* it skips the empty slots, stops after the last slot, and raises
\* "dictionary keys changed during iteration" if it finds an entry when it
\* has yielded len entries already.
dictiter_iternextitem(tb, mc, di_used, di_pos, len) ==
    LET live == { j \in (di_pos + 1)..Len(tb.dk_entries) : tb.dk_entries[j] }
        i == CHOOSE j \in live : \A x \in live : j <= x
    IN IF di_used # Len(mc) THEN [kind |-> "RuntimeError"]
       ELSE IF live = {} THEN [kind |-> "StopIteration"]
       ELSE IF len = 0 THEN [kind |-> "RuntimeError"]
       ELSE [kind |-> "item", di_pos |-> i, item |-> mc[LiveUpTo(tb, i)]]

(* ------------------------------ the objects ---------------------------- *)

NoObject == 0

\* the object super().__new__(cls) returns: no attribute is set yet
NewObject ==
    [initialized |-> "unset", memory_cache |-> <<>>, table |-> EmptyTable,
     inits |-> 0, lost |-> FALSE]

\* the object CacheManager() of Beta3 returns, __init__ having run on it
Beta3Object ==
    [initialized |-> PyTrue, memory_cache |-> Beta3_init, table |-> EmptyTable,
     inits |-> 1, lost |-> FALSE]

\* the cache a run of the workers starts on: earlier calls set(key, "v1")
\* stored some distinct keys, in some order and without one eviction, when
\* the clock read 0
StartKeys(K) ==
    UNION { { ks \in [1..n -> K] : \A i, j \in 1..n : ks[i] = ks[j] => i = j } :
            n \in 0..max_memory_items }

StartMemory(ks) ==
    [i \in 1..Len(ks) |-> [key |-> ks[i], data |-> "v1", timestamp |-> 0]]

StartDisk(F, ks) ==
    [f \in F |->
        IF \E i \in 1..Len(ks) : Apex_get_cache_path(ks[i]) = f
        THEN Record("v1", 0) ELSE NoFile]

StartTable(ks) ==
    IF Len(ks) = 0 THEN EmptyTable
    ELSE [dk_entries |-> [i \in 1..Len(ks) |-> TRUE],
          dk_usable |-> USABLE_FRACTION(NewKeysSize(0)) - Len(ks)]

\* the ApexAnalytics CacheManager after those calls
ApexObject(ks) ==
    [initialized |-> PyTrue, memory_cache |-> StartMemory(ks),
     table |-> StartTable(ks), inits |-> 1, lost |-> FALSE]

(* ------------------------------ the threads ---------------------------- *)

NoFiles == {}

\* a fetch call that began while another thread was inside a call
NotLone == 0 - 1

\* a thread outside any call that holds the object obtained.  In a call,
\* op is the method of the cache it runs and fn the fetch function that
\* called it ("none" when the worker calls the cache itself); f is the
\* state of the file object of the with statement; files are the paths
\* glob has still to yield (line 103); di_used, di_pos and len are the
\* iterator of line 130, oldest_key and oldest_timestamp the least item
\* min has met; self is the object __init__ runs on.  Of a call of a fetch
\* function the record keeps two observations: since, the number of fetch
\* calls that had ended when it began if no other thread was inside a call
\* then, and touched, whether its cache lookup changed a tier.
Worker(obtained) ==
    [pc |-> "idle", op |-> "none", fn |-> "none", key |-> NoKey,
     data |-> NoneVal, flag |-> FALSE, timestamp |-> 0, oldest_key |-> NoKey,
     oldest_timestamp |-> 0, di_used |-> 0, di_pos |-> 0, len |-> 0,
     f |-> "closed", files |-> NoFiles, raised |-> NoError, calls |-> 0,
     self |-> NoObject, obtained |-> obtained, since |-> NotLone,
     touched |-> FALSE]

\* the thread th outside any call again
Idle(th, raised) ==
    [Worker(th.obtained) EXCEPT !.raised = raised, !.calls = th.calls]

\* the memory tier, and its hash table, of the object the thread works on
SelfMemory(t) == heap.objects[threads[t].obtained].memory_cache

SelfTable(t) == heap.objects[threads[t].obtained].table

StoreSelf(t, mc, tb) ==
    heap' = [heap EXCEPT !.objects[threads[t].obtained].memory_cache = mc,
                         !.objects[threads[t].obtained].table = tb]

\* the state the steps of the threads never change
Fixed == <<variant, memory_cache, beta3_memory_cache, watch, lastSet>>

(* ----------------- the frame of a cached fetch function ---------------- *)

EmptyList == "[]"

EmptyProfile == "{}"

\* the truth value Python gives a cached result in 'if cached:'
Truthy(x) == x \notin {NoneVal, EmptyList, EmptyProfile}

\* the test a fetch function makes on what cache.get returned:
\* 'if cached:' in Beta3, 'if cached is not None:' in ApexAnalytics
Cached(x) == IF variant = "apex" THEN x # NoneVal ELSE Truthy(x)

\* what the function returns from its except clause: {} from the
\* functions that build a profile or statistics, [] from the others
Fallback(fn) ==
    IF fn \in {"fetch_driver_profile", "fetch_driver_career_stats",
               "fetch_constructor_profile"}
    THEN EmptyProfile ELSE EmptyList

\* no other thread is inside a call
OthersIdle(t) == \A u \in Threads \ {t} : threads[u].pc \in {"idle", "ended"}

\* how the fetch of a call ended: its request raised, the response could
\* not be parsed, or neither (a hit, an empty answer, a stored result)
NotFailed == "no"

RequestRaised == "request"

ResponseUnparsed == "response"

\* no fetch call has ended yet
NoFetch ==
    [op |-> "init", key |-> NoKey, data |-> NoneVal, flag |-> FALSE,
     ret |-> NoneVal, raised |-> FALSE, count |-> 0, t |-> 0, at |-> 0,
     alone |-> FALSE, failed |-> NotFailed, touched |-> FALSE]

\* the record of the fetch call that ends in this step: its function and
\* key, what it stored (None if cache.set did not return) and the
\* timestamp of that record, whether it issued the request, what it
\* returned, whether it raised, the clock, whether no step of another
\* thread's call fell between its first and its last step, whether the
\* request raised or its response could not be parsed, and whether the
\* lookup changed a tier
FetchCall(t, th, ret, raised, stored, requested, failed) ==
    [op |-> th.fn, key |-> th.key, data |-> stored, flag |-> requested,
     ret |-> ret, raised |-> raised, count |-> last.count + 1, t |-> now,
     at |-> IF stored = NoneVal THEN 0 ELSE th.timestamp,
     alone |-> th.since = last.count /\ OthersIdle(t),
     failed |-> failed, touched |-> th.touched]

\* the thread goes on inside its call
Step(t, th) == threads' = [threads EXCEPT ![t] = th] /\ UNCHANGED last

Goto(t, line) == Step(t, [threads[t] EXCEPT !.pc = line])

\* a step of cache.get changed a tier: the lookup of a fetch function did
\* so if the function called that get; what cache.set changes is no part
\* of the lookup
Touched(th) ==
    [th EXCEPT !.touched = th.touched \/ (th.fn # "none" /\ th.op = "get")]

\* the call of the worker ends: it returns or, with an exception, the
\* worker reports it and ends (APIWorker.run, TelemetryWorker.run and
\* TelemetryFetchThread.run catch it and make no further call).  ths are
\* the threads as the step leaves the others, th the thread as the step
\* leaves it
Finish(ths, t, th, ret, exception, stored, requested, failed) ==
    /\ threads' = [ths EXCEPT ![t] =
          IF exception = NoError THEN Idle(th, NoError)
          ELSE [Idle(th, exception) EXCEPT !.pc = "ended"]]
    /\ last' = IF th.fn = "none" THEN last
               ELSE FetchCall(t, th, ret, exception # NoError, stored,
                              requested, failed)

\* the fetch function goes on to its request after the miss
Requesting(th) ==
    [Idle(th, NoError) EXCEPT !.pc = "request", !.fn = th.fn, !.key = th.key,
        !.since = th.since, !.touched = th.touched]

\* a method of the cache returns value.  To a worker that called it, the
\* call is over.  To a fetch function, get returns what the function tests
\* (a hit is returned, a miss goes on to the request), and after set the
\* function returns the data it stored
ReturnIn(ths, t, th, value) ==
    IF th.fn = "none"
    THEN Finish(ths, t, th, value, NoError, NoneVal, FALSE, NotFailed)
    ELSE IF th.op = "set"
    THEN Finish(ths, t, th, th.data, NoError, th.data, TRUE, NotFailed)
    ELSE IF Cached(value)
    THEN Finish(ths, t, th, value, NoError, NoneVal, FALSE, NotFailed)
    ELSE threads' = [ths EXCEPT ![t] = Requesting(th)] /\ UNCHANGED last

Return(t, value) == ReturnIn(threads, t, threads[t], value)

\* a method of the cache raises.  cache.get is called before the try block
\* of a fetch function, so its exception leaves the function; cache.set is
\* called inside: the functions of api_utils catch the exception and
\* return the fallback, fetch_session_data raises
\* Exception("Failed to load session: ...")
Raise(t, exception) ==
    LET th == threads[t]
    IN  IF th.fn = "none" \/ th.op = "get"
        THEN Finish(threads, t, th, NoneVal, exception, NoneVal, FALSE,
                    NotFailed)
        ELSE IF th.fn = "fetch_session_data"
        THEN Finish(threads, t, th, NoneVal, "Exception", NoneVal, TRUE,
                    NotFailed)
        ELSE Finish(threads, t, th, Fallback(th.fn), NoError, NoneVal, TRUE,
                    NotFailed)

\* an exception inside _set_memory_cache: get catches it (line 60) and
\* returns None, set lets it through
RaiseInSetMemoryCache(t, exception) ==
    IF threads[t].op = "get" THEN Return(t, NoneVal) ELSE Raise(t, exception)

\* the path was unlinked: a file object another thread holds open on it
\* goes on reading or writing a file no path leads to.  What that file
\* holds can change no more, since no other thread can open it: a reader
\* will load the record it holds now, which its data and timestamp keep
\* meanwhile, or fail on a file without a record
Unlinked(ths, t, path) ==
    [u \in Threads |->
        IF u # t /\ ths[u].f = "open" /\ get_cache_path(variant, ths[u].key) = path
        THEN IF ths[u].op = "get" /\ disk[path].kind = "rec"
             THEN [ths[u] EXCEPT !.f = "unlinked_record",
                      !.data = disk[path].data,
                      !.timestamp = disk[path].timestamp]
             ELSE [ths[u] EXCEPT !.f = "unlinked"]
        ELSE ths[u]]

\* the content pickle.load reads through the file object of the thread
Opened(t) ==
    IF threads[t].f = "open" THEN disk[get_cache_path(variant, threads[t].key)]
    ELSE IF threads[t].f = "unlinked_record"
    THEN Record(threads[t].data, threads[t].timestamp)
    ELSE CorruptFile

InitThreadsOn(K) ==
    /\ variant = "apex"
    /\ now = 0
    /\ \E ks \in StartKeys(K) :
          /\ heap = [instance |-> 1, objects |-> <<ApexObject(ks)>>]
          /\ disk = StartDisk({ Apex_get_cache_path(k) : k \in K }, ks)
    /\ memory_cache = <<>>
    /\ beta3_memory_cache = EmptyDict
    /\ faults = 0
    /\ last = NoCall
    /\ lastSet = NeverSet
    /\ watch = NoKey
    /\ threads = [t \in Threads |-> Worker(1)]

InitThreads == InitThreadsOn(ThreadKeys)

(* ------------- the steps of CacheManager of ApexAnalytics -------------- *)

\* a thread may call a method of the cache it holds
Calls(t) ==
    /\ threads[t].pc = "idle"
    /\ threads[t].obtained # NoObject
    /\ threads[t].calls < MaxCalls

\* get(key, use_memory) is called and runs line 38:
\* if use_memory and key in self.memory_cache
Apex_get_38(th, mc, key, use_memory) ==
    [th EXCEPT !.op = "get", !.key = key, !.flag = use_memory,
        !.calls = th.calls + 1,
        !.pc = IF use_memory /\ HasKey(mc, key) THEN "39" ELSE "46"]

Get38(t, key, use_memory) ==
    /\ variant = "apex"
    /\ Calls(t)
    /\ Step(t, Apex_get_38(Idle(threads[t], NoError), SelfMemory(t), key,
                           use_memory))
    /\ UNCHANGED <<heap, disk, faults, now, Fixed>>

\* line 39: data, timestamp = self.memory_cache[key]
Get39(t) ==
    /\ variant = "apex"
    /\ threads[t].pc = "39"
    /\ IF ~HasKey(SelfMemory(t), threads[t].key) THEN Raise(t, "KeyError")
       ELSE Step(t, [threads[t] EXCEPT !.pc = "40",
               !.data = Lookup(SelfMemory(t), threads[t].key).data,
               !.timestamp = Lookup(SelfMemory(t), threads[t].key).timestamp])
    /\ UNCHANGED <<heap, disk, faults, now, Fixed>>

\* lines 40-41: if datetime.now() - timestamp < self.expiry_delta:
\* return data
Get40(t) ==
    /\ variant = "apex"
    /\ threads[t].pc = "40"
    /\ IF Apex_memory_fresh(now, threads[t].timestamp)
       THEN Return(t, threads[t].data)
       ELSE Goto(t, "43")
    /\ UNCHANGED <<heap, disk, faults, now, Fixed>>

\* line 43: del self.memory_cache[key]
Get43(t) ==
    /\ variant = "apex"
    /\ threads[t].pc = "43"
    /\ IF ~HasKey(SelfMemory(t), threads[t].key)
       THEN Raise(t, "KeyError") /\ UNCHANGED heap
       ELSE /\ Step(t, Touched([threads[t] EXCEPT !.pc = "46", !.data = NoneVal,
                                   !.timestamp = 0]))
            /\ StoreSelf(t, DictDel(SelfMemory(t), threads[t].key),
                         TableDel(SelfTable(t), SelfMemory(t), threads[t].key))
    /\ UNCHANGED <<disk, faults, now, Fixed>>

\* lines 45-47: if not cache_path.exists(): return None
Get46(t) ==
    /\ variant = "apex"
    /\ threads[t].pc = "46"
    /\ IF disk[Apex_get_cache_path(threads[t].key)].kind = "none"
       THEN Return(t, NoneVal)
       ELSE Goto(t, "50")
    /\ UNCHANGED <<heap, disk, faults, now, Fixed>>

\* line 50: open(cache_path, 'rb'); FileNotFoundError, if the file went
\* away after exists(), is caught at line 60 and get returns None
Get50(t) ==
    /\ variant = "apex"
    /\ threads[t].pc = "50"
    /\ IF disk[Apex_get_cache_path(threads[t].key)].kind = "none"
       THEN Return(t, NoneVal)
       ELSE Step(t, [threads[t] EXCEPT !.pc = "51", !.f = "open"])
    /\ UNCHANGED <<heap, disk, faults, now, Fixed>>

\* line 51: data, timestamp = pickle.load(f), and f is closed.  The file
\* is read as it is now, emptied or half written by a set since the open;
\* one that holds no record raises and get returns None at line 62
Get51(t) ==
    /\ variant = "apex"
    /\ threads[t].pc = "51"
    /\ IF Opened(t).kind = "rec"
       THEN Step(t, [threads[t] EXCEPT !.pc = "53", !.f = "closed",
               !.data = Opened(t).data,
               !.timestamp = Opened(t).timestamp])
       ELSE Return(t, NoneVal)
    /\ UNCHANGED <<heap, disk, faults, now, Fixed>>

\* line 53: if datetime.now() - timestamp > self.expiry_delta; line 57
\* calls _set_memory_cache(key, data, timestamp)
Get53(t) ==
    /\ variant = "apex"
    /\ threads[t].pc = "53"
    /\ IF Apex_record_expired(now, threads[t].timestamp)
       THEN Goto(t, "54")
       ELSE Goto(t, "129")
    /\ UNCHANGED <<heap, disk, faults, now, Fixed>>

\* line 54: cache_path.unlink() removes whatever file the path names now;
\* FileNotFoundError, if another thread removed it, is caught at line 60,
\* as is the failure of the unlink
Get54(t, unlinkOk) ==
    /\ variant = "apex"
    /\ threads[t].pc = "54"
    /\ LET path == Apex_get_cache_path(threads[t].key)
           gone == unlinkOk /\ disk[path].kind # "none"
       IN  /\ Fault(~unlinkOk, disk[path].kind # "none")
           /\ disk' = IF unlinkOk THEN [disk EXCEPT ![path] = NoFile] ELSE disk
           /\ ReturnIn(IF gone THEN Unlinked(threads, t, path) ELSE threads, t,
                       IF gone THEN Touched(threads[t]) ELSE threads[t], NoneVal)
    /\ UNCHANGED <<heap, now, Fixed>>

\* set(key, data, persist) is called and runs line 66:
\* timestamp = datetime.now(); line 68 calls _set_memory_cache
Apex_set_66(th, key, data, persist) ==
    [th EXCEPT !.op = "set", !.key = key, !.data = data, !.flag = persist,
        !.timestamp = now, !.calls = th.calls + 1,
        !.pc = "129"]

Set66(t, key, data, persist) ==
    /\ variant = "apex"
    /\ Calls(t)
    /\ Step(t, Apex_set_66(Idle(threads[t], NoError), key, data, persist))
    /\ UNCHANGED <<heap, disk, faults, now, Fixed>>

\* line 129: if len(self.memory_cache) >= self.max_memory_items
SetMemoryCache129(t) ==
    /\ variant = "apex"
    /\ threads[t].pc = "129"
    /\ Goto(t, IF Len(SelfMemory(t)) >= max_memory_items THEN "130" ELSE "133")
    /\ UNCHANGED <<heap, disk, faults, now, Fixed>>

\* line 130, min(self.memory_cache.items(), key=...): min creates the
\* iterator and takes the first item; no item raises ValueError.  The item
\* is the tuple (key, (data, timestamp)) as it is when it is yielded.
SetMemoryCache130(t) ==
    /\ variant = "apex"
    /\ threads[t].pc = "130"
    /\ LET n == dictiter_iternextitem(SelfTable(t), SelfMemory(t),
                                      Len(SelfMemory(t)), 0, Len(SelfMemory(t)))
       IN IF n.kind = "StopIteration"
          THEN RaiseInSetMemoryCache(t, "ValueError")
          ELSE Step(t, [threads[t] EXCEPT !.pc = "130_next",
                  !.di_used = Len(SelfMemory(t)),
                  !.di_pos = n.di_pos,
                  !.len = Len(SelfMemory(t)) - 1,
                  !.oldest_key = n.item.key,
                  !.oldest_timestamp = n.item.timestamp])
    /\ UNCHANGED <<heap, disk, faults, now, Fixed>>

\* line 130, after the lambda returned for an item: min takes the next
\* item and keeps it if its timestamp is less than the least so far; at
\* the end of the iteration oldest_key is the key of the least item
SetMemoryCache130Next(t) ==
    /\ variant = "apex"
    /\ threads[t].pc = "130_next"
    /\ LET n == dictiter_iternextitem(SelfTable(t), SelfMemory(t),
                                      threads[t].di_used, threads[t].di_pos,
                                      threads[t].len)
       IN IF n.kind = "RuntimeError"
          THEN RaiseInSetMemoryCache(t, "RuntimeError")
          ELSE IF n.kind = "StopIteration"
          THEN Step(t, [threads[t] EXCEPT !.pc = "131", !.di_used = 0,
                  !.di_pos = 0, !.len = 0, !.oldest_timestamp = 0])
          ELSE Step(t, [threads[t] EXCEPT !.di_pos = n.di_pos,
                  !.len = threads[t].len - 1,
                  !.oldest_key =
                      IF n.item.timestamp < threads[t].oldest_timestamp
                      THEN n.item.key ELSE threads[t].oldest_key,
                  !.oldest_timestamp =
                      IF n.item.timestamp < threads[t].oldest_timestamp
                      THEN n.item.timestamp ELSE threads[t].oldest_timestamp])
    /\ UNCHANGED <<heap, disk, faults, now, Fixed>>

\* line 131: del self.memory_cache[oldest_key]
SetMemoryCache131(t) ==
    /\ variant = "apex"
    /\ threads[t].pc = "131"
    /\ IF ~HasKey(SelfMemory(t), threads[t].oldest_key)
       THEN RaiseInSetMemoryCache(t, "KeyError") /\ UNCHANGED heap
       ELSE /\ Step(t, Touched([threads[t] EXCEPT !.pc = "133",
                                   !.oldest_key = NoKey]))
            /\ StoreSelf(t, DictDel(SelfMemory(t), threads[t].oldest_key),
                         TableDel(SelfTable(t), SelfMemory(t),
                                  threads[t].oldest_key))
    /\ UNCHANGED <<disk, faults, now, Fixed>>

\* line 133: self.memory_cache[key] = (data, timestamp); get returns the
\* data (line 58), set goes on to line 70
SetMemoryCache133(t) ==
    /\ variant = "apex"
    /\ threads[t].pc = "133"
    /\ StoreSelf(t, DictPut(SelfMemory(t), threads[t].key, threads[t].data,
                            threads[t].timestamp),
                 TablePut(SelfTable(t), SelfMemory(t), threads[t].key))
    /\ IF threads[t].op = "get"
       THEN ReturnIn(threads, t, Touched(threads[t]), threads[t].data)
       ELSE Goto(t, "70")
    /\ UNCHANGED <<disk, faults, now, Fixed>>

\* lines 70-73: if persist, open(cache_path, 'wb') creates the file or
\* empties the one the path names; its failure returns False (line 78)
Set70(t, wr) ==
    /\ variant = "apex"
    /\ threads[t].pc = "70"
    /\ wr \in {"ok", "open_fails"}
    /\ Fault(wr # "ok", threads[t].flag)
    /\ IF threads[t].flag /\ wr = "ok"
       THEN /\ disk' = [disk EXCEPT ![Apex_get_cache_path(threads[t].key)] =
                            CorruptFile]
            /\ Step(t, [threads[t] EXCEPT !.pc = "74", !.f = "open"])
       ELSE /\ Return(t, IF threads[t].flag THEN PyFalse ELSE PyTrue)
            /\ UNCHANGED disk
    /\ UNCHANGED <<heap, now, Fixed>>

\* lines 74-75: pickle.dump((data, timestamp), f) and the close of f write
\* the record into the file f was opened on, which the path no longer
\* names if it was unlinked since; a failing dump leaves the file as it is
\* and returns False (line 78)
Set74(t, wr) ==
    /\ variant = "apex"
    /\ threads[t].pc = "74"
    /\ wr \in {"ok", "dump_fails"}
    /\ Fault(wr # "ok", TRUE)
    /\ disk' = IF wr = "ok" /\ threads[t].f = "open"
               THEN [disk EXCEPT ![Apex_get_cache_path(threads[t].key)] =
                        Record(threads[t].data, threads[t].timestamp)]
               ELSE disk
    /\ Return(t, IF wr = "ok" THEN PyTrue ELSE PyFalse)
    /\ UNCHANGED <<heap, now, Fixed>>

\* a worker calls delete(key) and runs line 84: if key in self.memory_cache
Delete84(t, key) ==
    /\ variant = "apex"
    /\ Calls(t)
    /\ Step(t, [Idle(threads[t], NoError) EXCEPT !.op = "delete", !.key = key,
                   !.calls = threads[t].calls + 1,
                   !.pc = IF HasKey(SelfMemory(t), key) THEN "85" ELSE "87"])
    /\ UNCHANGED <<heap, disk, faults, now, Fixed>>

\* line 85: del self.memory_cache[key]
Delete85(t) ==
    /\ variant = "apex"
    /\ threads[t].pc = "85"
    /\ IF ~HasKey(SelfMemory(t), threads[t].key)
       THEN Raise(t, "KeyError") /\ UNCHANGED heap
       ELSE /\ Goto(t, "87")
            /\ StoreSelf(t, DictDel(SelfMemory(t), threads[t].key),
                         TableDel(SelfTable(t), SelfMemory(t), threads[t].key))
    /\ UNCHANGED <<disk, faults, now, Fixed>>

\* lines 87-88: if cache_path.exists(); no file returns True (line 96)
Delete87(t) ==
    /\ variant = "apex"
    /\ threads[t].pc = "87"
    /\ IF disk[Apex_get_cache_path(threads[t].key)].kind # "none"
       THEN Goto(t, "90")
       ELSE Return(t, PyTrue)
    /\ UNCHANGED <<heap, disk, faults, now, Fixed>>

\* lines 90-94: cache_path.unlink() and return True; FileNotFoundError, if
\* another thread removed the file since line 88, and the failure of the
\* unlink are caught and return False
Delete90(t, unlinkOk) ==
    /\ variant = "apex"
    /\ threads[t].pc = "90"
    /\ LET path == Apex_get_cache_path(threads[t].key)
           gone == unlinkOk /\ disk[path].kind # "none"
       IN  /\ Fault(~unlinkOk, disk[path].kind # "none")
           /\ disk' = IF unlinkOk THEN [disk EXCEPT ![path] = NoFile] ELSE disk
           /\ ReturnIn(IF gone THEN Unlinked(threads, t, path) ELSE threads, t,
                       threads[t], IF gone THEN PyTrue ELSE PyFalse)
    /\ UNCHANGED <<heap, now, Fixed>>

\* a worker calls clear_all() and runs line 100: self.memory_cache.clear()
ClearAll100(t) ==
    /\ variant = "apex"
    /\ Calls(t)
    /\ StoreSelf(t, <<>>, EmptyTable)
    /\ Step(t, [Idle(threads[t], NoError) EXCEPT !.op = "clear_all",
                   !.calls = threads[t].calls + 1,
                   !.pc = "103"])
    /\ UNCHANGED <<disk, faults, now, Fixed>>

\* line 103, self.cache_dir.glob('*.pkl'): glob lists the directory once,
\* when the loop asks for the first path, and yields from that list; an
\* empty list returns 0 (line 110)
ClearAll103(t) ==
    /\ variant = "apex"
    /\ threads[t].pc = "103"
    /\ IF Glob(disk) = {} THEN Return(t, NoneVal)
       ELSE Step(t, [threads[t] EXCEPT !.pc = "105", !.files = Glob(disk)])
    /\ UNCHANGED <<heap, disk, faults, now, Fixed>>

\* lines 104-108, one turn of the loop: glob yields a path of its list, in
\* the order of the directory, and cache_file.unlink() removes the file;
\* FileNotFoundError, if another thread removed it, and the failure of the
\* unlink are caught and the file is not counted.  After the last path
\* clear_all returns the count, which the workers do not keep
ClearAll105(t, cache_file, unlinkOk) ==
    /\ variant = "apex"
    /\ threads[t].pc = "105"
    /\ cache_file \in threads[t].files
    /\ Fault(~unlinkOk, disk[cache_file].kind # "none")
    /\ disk' = IF unlinkOk THEN [disk EXCEPT ![cache_file] = NoFile] ELSE disk
    /\ LET ths == IF unlinkOk /\ disk[cache_file].kind # "none"
                  THEN Unlinked(threads, t, cache_file) ELSE threads
       IN IF threads[t].files = {cache_file}
          THEN ReturnIn(ths, t, threads[t], NoneVal)
          ELSE /\ threads' = [ths EXCEPT ![t].files =
                                 threads[t].files \ {cache_file}]
               /\ UNCHANGED last
    /\ UNCHANGED <<heap, now, Fixed>>

\* the workers run the fetch functions, which call get(cache_key) and
\* set(cache_key, data) with the default use_memory and persist
NextThreads ==
    \/ Tick
    \/ \E t \in Threads, k \in ThreadKeys : Get38(t, k, TRUE)
    \/ \E t \in Threads : Get39(t)
    \/ \E t \in Threads : Get40(t)
    \/ \E t \in Threads : Get43(t)
    \/ \E t \in Threads : Get46(t)
    \/ \E t \in Threads : Get50(t)
    \/ \E t \in Threads : Get51(t)
    \/ \E t \in Threads : Get53(t)
    \/ \E t \in Threads, uok \in BOOLEAN : Get54(t, uok)
    \/ \E t \in Threads, k \in ThreadKeys, v \in ThreadValues :
          Set66(t, k, v, TRUE)
    \/ \E t \in Threads : SetMemoryCache129(t)
    \/ \E t \in Threads : SetMemoryCache130(t)
    \/ \E t \in Threads : SetMemoryCache130Next(t)
    \/ \E t \in Threads : SetMemoryCache131(t)
    \/ \E t \in Threads : SetMemoryCache133(t)
    \/ \E t \in Threads, wr \in WriteOutcomes : Set70(t, wr)
    \/ \E t \in Threads, wr \in WriteOutcomes : Set74(t, wr)
    \/ \E t \in Threads, k \in ThreadKeys : Delete84(t, k)
    \/ \E t \in Threads : Delete85(t)
    \/ \E t \in Threads : Delete87(t)
    \/ \E t \in Threads, uok \in BOOLEAN : Delete90(t, uok)
    \/ \E t \in Threads : ClearAll100(t)
    \/ \E t \in Threads : ClearAll103(t)
    \/ \E t \in Threads, f \in DOMAIN disk, uok \in BOOLEAN :
          ClearAll105(t, f, uok)

SpecThreads == InitThreads /\ [][NextThreads]_vars

(***************************************************************************)
(* Claims about concurrent callers                                         *)
(***************************************************************************)

\* C15: whatever the interleaving of the steps of two worker threads on
\* the shared ApexAnalytics CacheManager, no get, set, delete or clear_all
\* raises an exception to its caller.
C15_NoOperationRaises ==
    \A t \in Threads : threads[t].raised = NoError

(***************************************************************************)
(* Concurrent inserts.  The two worker threads only call set and get, on   *)
(* three keys, one more than the memory tier holds, so that an insertion   *)
(* can find the tier one entry below its capacity.  The files are written  *)
(* without a fault and the clock stands still, so that no entry expires:   *)
(* the memory tier is what is looked at.                                   *)
(***************************************************************************)

InsertKeys == Keys

NextInserts ==
    \/ \E t \in Threads, k \in InsertKeys : Get38(t, k, TRUE)
    \/ \E t \in Threads : Get39(t)
    \/ \E t \in Threads : Get40(t)
    \/ \E t \in Threads : Get46(t)
    \/ \E t \in Threads : Get50(t)
    \/ \E t \in Threads : Get51(t)
    \/ \E t \in Threads : Get53(t)
    \/ \E t \in Threads, k \in InsertKeys, v \in ThreadValues :
          Set66(t, k, v, TRUE)
    \/ \E t \in Threads : SetMemoryCache129(t)
    \/ \E t \in Threads : SetMemoryCache130(t)
    \/ \E t \in Threads : SetMemoryCache130Next(t)
    \/ \E t \in Threads : SetMemoryCache131(t)
    \/ \E t \in Threads : SetMemoryCache133(t)
    \/ \E t \in Threads : Set70(t, "ok")
    \/ \E t \in Threads : Set74(t, "ok")

InitInserts == InitThreadsOn(InsertKeys)

SpecInserts == InitInserts /\ [][NextInserts]_vars

\* every worker has returned from its call, or ended after an exception
AllReturned == \A t \in Threads : threads[t].pc \in {"idle", "ended"}

\* C25: when two threads run set or a promoting get on distinct keys of the
\* shared ApexAnalytics CacheManager, with any interleaving of the length
\* check, the eviction and the insertion of _set_memory_cache, the memory
\* tier holds at most max_memory_items entries once all of them returned.
C25_CapacityUnderConcurrentInserts ==
    AllReturned => Len(heap.objects[1].memory_cache) <= max_memory_items

(* ----------------- the steps of CacheManager of Beta3 ------------------- *)

\* get(key) is called and runs line 43: if key in self.memory_cache
Beta3_get_43(th, mc, key) ==
    [th EXCEPT !.op = "get", !.key = key, !.calls = th.calls + 1,
        !.pc = IF mc[key].present THEN "44" ELSE "53"]

\* line 44: data, timestamp = self.memory_cache[key]
Beta3Get44(t) ==
    /\ variant = "beta3"
    /\ threads[t].pc = "44"
    /\ IF ~SelfMemory(t)[threads[t].key].present THEN Raise(t, "KeyError")
       ELSE Step(t, [threads[t] EXCEPT !.pc = "45",
               !.data = SelfMemory(t)[threads[t].key].data,
               !.timestamp = SelfMemory(t)[threads[t].key].timestamp])
    /\ UNCHANGED <<heap, disk, faults, now, Fixed>>

\* lines 45-46: if datetime.now() - timestamp < self.expiry_delta:
\* return data
Beta3Get45(t) ==
    /\ variant = "beta3"
    /\ threads[t].pc = "45"
    /\ IF Beta3_memory_fresh(now, threads[t].timestamp)
       THEN Return(t, threads[t].data)
       ELSE Goto(t, "48")
    /\ UNCHANGED <<heap, disk, faults, now, Fixed>>

\* line 48: del self.memory_cache[key]
Beta3Get48(t) ==
    /\ variant = "beta3"
    /\ threads[t].pc = "48"
    /\ IF ~SelfMemory(t)[threads[t].key].present
       THEN Raise(t, "KeyError") /\ UNCHANGED heap
       ELSE /\ Step(t, Touched([threads[t] EXCEPT !.pc = "53", !.data = NoneVal,
                                   !.timestamp = 0]))
            /\ StoreSelf(t, [SelfMemory(t) EXCEPT ![threads[t].key] = Absent],
                         EmptyTable)
    /\ UNCHANGED <<disk, faults, now, Fixed>>

\* lines 51-54: if not cache_path.exists(): return None
Beta3Get53(t) ==
    /\ variant = "beta3"
    /\ threads[t].pc = "53"
    /\ IF disk[Beta3_get_cache_path(threads[t].key)].kind = "none"
       THEN Return(t, NoneVal)
       ELSE Goto(t, "57")
    /\ UNCHANGED <<heap, disk, faults, now, Fixed>>

\* line 57: open(cache_path, 'rb'); FileNotFoundError, if the file went
\* away after exists(), is caught at line 69 and get returns None
Beta3Get57(t) ==
    /\ variant = "beta3"
    /\ threads[t].pc = "57"
    /\ IF disk[Beta3_get_cache_path(threads[t].key)].kind = "none"
       THEN Return(t, NoneVal)
       ELSE Step(t, [threads[t] EXCEPT !.pc = "58", !.f = "open"])
    /\ UNCHANGED <<heap, disk, faults, now, Fixed>>

\* line 58: data, timestamp = pickle.load(f), and f is closed; a file that
\* holds no record raises and get returns None at line 71
Beta3Get58(t) ==
    /\ variant = "beta3"
    /\ threads[t].pc = "58"
    /\ IF Opened(t).kind = "rec"
       THEN Step(t, [threads[t] EXCEPT !.pc = "61", !.f = "closed",
               !.data = Opened(t).data,
               !.timestamp = Opened(t).timestamp])
       ELSE Return(t, NoneVal)
    /\ UNCHANGED <<heap, disk, faults, now, Fixed>>

\* line 61: if datetime.now() - timestamp > self.expiry_delta
Beta3Get61(t) ==
    /\ variant = "beta3"
    /\ threads[t].pc = "61"
    /\ IF Beta3_record_expired(now, threads[t].timestamp)
       THEN Goto(t, "62")
       ELSE Goto(t, "66")
    /\ UNCHANGED <<heap, disk, faults, now, Fixed>>

\* lines 62-63: cache_path.unlink() and return None; FileNotFoundError and
\* the failure of the unlink are caught at line 69
Beta3Get62(t, unlinkOk) ==
    /\ variant = "beta3"
    /\ threads[t].pc = "62"
    /\ LET path == Beta3_get_cache_path(threads[t].key)
           gone == unlinkOk /\ disk[path].kind # "none"
       IN  /\ Fault(~unlinkOk, disk[path].kind # "none")
           /\ disk' = IF unlinkOk THEN [disk EXCEPT ![path] = NoFile] ELSE disk
           /\ ReturnIn(IF gone THEN Unlinked(threads, t, path) ELSE threads, t,
                       IF gone THEN Touched(threads[t]) ELSE threads[t], NoneVal)
    /\ UNCHANGED <<heap, now, Fixed>>

\* lines 66-67: self.memory_cache[key] = (data, timestamp); return data
Beta3Get66(t) ==
    /\ variant = "beta3"
    /\ threads[t].pc = "66"
    /\ StoreSelf(t, [SelfMemory(t) EXCEPT ![threads[t].key] =
                        Entry(threads[t].data, threads[t].timestamp)],
                 EmptyTable)
    /\ ReturnIn(threads, t, Touched(threads[t]), threads[t].data)
    /\ UNCHANGED <<disk, faults, now, Fixed>>

\* set(key, data) is called and runs line 81: timestamp = datetime.now()
Beta3_set_81(th, key, data) ==
    [th EXCEPT !.op = "set", !.key = key, !.data = data, !.timestamp = now,
        !.calls = th.calls + 1, !.pc = "84"]

Beta3Set81(t, key, data) ==
    /\ variant = "beta3"
    /\ Calls(t)
    /\ Step(t, Beta3_set_81(Idle(threads[t], NoError), key, data))
    /\ UNCHANGED <<heap, disk, faults, now, Fixed>>

\* line 84: self.memory_cache[key] = (data, timestamp)
Beta3Set84(t) ==
    /\ variant = "beta3"
    /\ threads[t].pc = "84"
    /\ StoreSelf(t, [SelfMemory(t) EXCEPT ![threads[t].key] =
                        Entry(threads[t].data, threads[t].timestamp)],
                 EmptyTable)
    /\ Goto(t, "90")
    /\ UNCHANGED <<disk, faults, now, Fixed>>

\* lines 87-90: open(cache_path, 'wb') creates the file or empties the one
\* the path names; its failure is printed (line 93) and set returns
Beta3Set90(t, wr) ==
    /\ variant = "beta3"
    /\ threads[t].pc = "90"
    /\ wr \in {"ok", "open_fails"}
    /\ Fault(wr # "ok", TRUE)
    /\ IF wr = "ok"
       THEN /\ disk' = [disk EXCEPT ![Beta3_get_cache_path(threads[t].key)] =
                            CorruptFile]
            /\ Step(t, [threads[t] EXCEPT !.pc = "91", !.f = "open"])
       ELSE /\ Return(t, NoneVal)
            /\ UNCHANGED disk
    /\ UNCHANGED <<heap, now, Fixed>>

\* line 91: pickle.dump((data, timestamp), f) and the close of f write the
\* record into the file f was opened on; a failing dump is printed and
\* leaves the file as it is
Beta3Set91(t, wr) ==
    /\ variant = "beta3"
    /\ threads[t].pc = "91"
    /\ wr \in {"ok", "dump_fails"}
    /\ Fault(wr # "ok", TRUE)
    /\ disk' = IF wr = "ok" /\ threads[t].f = "open"
               THEN [disk EXCEPT ![Beta3_get_cache_path(threads[t].key)] =
                        Record(threads[t].data, threads[t].timestamp)]
               ELSE disk
    /\ Return(t, NoneVal)
    /\ UNCHANGED <<heap, now, Fixed>>

(***************************************************************************)
(* Concurrent creation.  Two threads call CacheManager() (ApexAnalytics)   *)
(* or get_cache() (Beta3) and then store through the object they got, by   *)
(* the steps of set.  Of every object heap keeps two observations: how     *)
(* many times the body of __init__ set up its memory tier, and whether     *)
(* that emptied a tier that held an entry.  Neither __new__, __init__ nor  *)
(* get_cache takes a lock.  The one key of the run never fills the memory  *)
(* tier, so that the scan of line 130 is not among the steps.              *)
(***************************************************************************)
CreateKeys == { <<"a">> }

\* the thread th at a line of the creation, or back from it
Caller(th, pc, self, obtained, raised) ==
    [Idle(th, raised) EXCEPT !.pc = pc, !.self = self, !.obtained = obtained]

InitCreate ==
    /\ StartStore
    /\ variant \in Variants
    /\ watch = NoKey
    /\ heap = [instance |-> NoObject, objects |-> <<>>]
    /\ threads = [t \in Threads |-> Worker(NoObject)]

\* a thread calls CacheManager() and runs line 20: if cls._instance is None
New20(t) ==
    /\ variant = "apex"
    /\ threads[t].pc = "idle"
    /\ Step(t, Caller(threads[t],
                      IF heap.instance = NoObject THEN "21" ELSE "23",
                      NoObject, NoObject, NoError))
    /\ UNCHANGED <<heap, disk, faults, now, Fixed>>

\* line 21: cls._instance = super().__new__(cls)
New21(t) ==
    /\ threads[t].pc = "21"
    /\ heap' = [instance |-> Len(heap.objects) + 1,
                objects |-> Append(heap.objects, NewObject)]
    /\ Goto(t, "22")
    /\ UNCHANGED <<disk, faults, now, Fixed>>

\* line 22: cls._instance._initialized = False, on the object the class
\* attribute refers to now
New22(t) ==
    /\ threads[t].pc = "22"
    /\ heap' = [heap EXCEPT !.objects[heap.instance].initialized = PyFalse]
    /\ Goto(t, "23")
    /\ UNCHANGED <<disk, faults, now, Fixed>>

\* line 23: return cls._instance; __init__ is then called on that object
New23(t) ==
    /\ threads[t].pc = "23"
    /\ Step(t, [threads[t] EXCEPT !.pc = "26", !.self = heap.instance])
    /\ UNCHANGED <<heap, disk, faults, now, Fixed>>

\* lines 26-27: if self._initialized: return; the attribute does not exist
\* before line 22 has run on the object
Init26(t) ==
    /\ threads[t].pc = "26"
    /\ LET o == heap.objects[threads[t].self]
       IN  Step(t, IF o.initialized = "unset"
                   THEN Caller(threads[t], "ended", NoObject, NoObject,
                               "AttributeError")
                   ELSE IF o.initialized = PyTrue
                   THEN Caller(threads[t], "idle", NoObject, threads[t].self,
                               NoError)
                   ELSE Caller(threads[t], "32", threads[t].self, NoObject,
                               NoError))
    /\ UNCHANGED <<heap, disk, faults, now, Fixed>>

\* lines 29-32: the directory, and self.memory_cache = {}
Init32(t) ==
    /\ threads[t].pc = "32"
    /\ LET o == heap.objects[threads[t].self]
       IN  heap' = [heap EXCEPT !.objects[threads[t].self] =
                       [o EXCEPT !.memory_cache = Apex_init(o.memory_cache, FALSE),
                                 !.table = EmptyTable,
                                 !.inits = o.inits + 1,
                                 !.lost = o.lost \/ o.memory_cache # <<>>]]
    /\ Goto(t, "34")
    /\ UNCHANGED <<disk, faults, now, Fixed>>

\* lines 33-34: self._initialized = True, and CacheManager() returns self
Init34(t) ==
    /\ threads[t].pc = "34"
    /\ heap' = [heap EXCEPT !.objects[threads[t].self].initialized = PyTrue]
    /\ Step(t, Caller(threads[t], "idle", NoObject, threads[t].self, NoError))
    /\ UNCHANGED <<disk, faults, now, Fixed>>

\* a thread calls get_cache() of Beta3 and runs line 172:
\* if _global_cache is None
GetCache172(t) ==
    /\ variant = "beta3"
    /\ threads[t].pc = "idle"
    /\ Step(t, Caller(threads[t],
                      IF heap.instance = NoObject THEN "173" ELSE "174",
                      NoObject, NoObject, NoError))
    /\ UNCHANGED <<heap, disk, faults, now, Fixed>>

\* line 173: _global_cache = CacheManager()
GetCache173(t) ==
    /\ threads[t].pc = "173"
    /\ heap' = [instance |-> Len(heap.objects) + 1,
                objects |-> Append(heap.objects, Beta3Object)]
    /\ Goto(t, "174")
    /\ UNCHANGED <<disk, faults, now, Fixed>>

\* line 174: return _global_cache
GetCache174(t) ==
    /\ threads[t].pc = "174"
    /\ Step(t, Caller(threads[t], "idle", NoObject, heap.instance, NoError))
    /\ UNCHANGED <<heap, disk, faults, now, Fixed>>

NextCreate ==
    \/ Tick
    \/ \E t \in Threads : New20(t)
    \/ \E t \in Threads : New21(t)
    \/ \E t \in Threads : New22(t)
    \/ \E t \in Threads : New23(t)
    \/ \E t \in Threads : Init26(t)
    \/ \E t \in Threads : Init32(t)
    \/ \E t \in Threads : Init34(t)
    \/ \E t \in Threads : GetCache172(t)
    \/ \E t \in Threads : GetCache173(t)
    \/ \E t \in Threads : GetCache174(t)
    \/ \E t \in Threads, k \in CreateKeys, v \in Values : Set66(t, k, v, TRUE)
    \/ \E t \in Threads : SetMemoryCache129(t)
    \/ \E t \in Threads : SetMemoryCache133(t)
    \/ \E t \in Threads, wr \in WriteOutcomes : Set70(t, wr)
    \/ \E t \in Threads, wr \in WriteOutcomes : Set74(t, wr)
    \/ \E t \in Threads, k \in CreateKeys, v \in Values : Beta3Set81(t, k, v)
    \/ \E t \in Threads : Beta3Set84(t)
    \/ \E t \in Threads, wr \in WriteOutcomes : Beta3Set90(t, wr)
    \/ \E t \in Threads, wr \in WriteOutcomes : Beta3Set91(t, wr)

SpecCreate == InitCreate /\ [][NextCreate]_vars

\* C16: when several threads call CacheManager() or get_cache() for the
\* first time concurrently, the threads that hold an instance hold the
\* same one, the body of __init__ has run at most once on every object,
\* and no initialisation has emptied a memory tier that held an entry.
C16_CreationCollapses ==
    /\ \A t1, t2 \in Threads :
          (threads[t1].obtained # NoObject /\ threads[t2].obtained # NoObject)
              => threads[t1].obtained = threads[t2].obtained
    /\ \A o \in 1..Len(heap.objects) :
          heap.objects[o].inits <= 1 /\ ~heap.objects[o].lost

(***************************************************************************)
(* The cached fetch functions, run by two worker threads.  A fetch         *)
(* function builds its cache key from its parameters, asks the cache       *)
(* (cache.get, by the steps above), and on a miss waits for its request,   *)
(* parses the answer and stores the result (cache.set, by the steps        *)
(* above); the other thread runs meanwhile.  net is the outcome of the     *)
(* request: "fails" (an exception of the HTTP or FastF1 layer),            *)
(* "no_table" (a response without the table the function reads),           *)
(* "malformed" (a response the function fails to parse: a row lacks a      *)
(* field it reads or holds no number where it converts one) or the         *)
(* parsed result, which may be an empty list.  The runs start after the    *)
(* application created the cache: the CacheManager of ApexAnalytics        *)
(* exists and is initialised, get_cache() of Beta3 has been called once,   *)
(* and fastf1_utils of Beta3 has been imported, which creates the          *)
(* CacheManager it keeps for itself.                                       *)
(***************************************************************************)

\* the object of fastf1_utils.cache_manager (Beta3) in heap.objects, the
\* global cache of data_cache.get_cache() being the first
fastf1_utils_cache_manager == 2

\* the outcomes of the request of each function
Schedules == {"fails", "malformed", EmptyList, "v1", "v2"}

Sessions == {"fails", "v1", "v2"}

Results == {"fails", "malformed", "no_table", EmptyList, "v1"}

Beta3Standings == {"fails", "malformed", "no_table", EmptyList, "v1"}

Standings == {"fails", "malformed", "no_table", EmptyList, "v1", "v2"}

Profiles == {"fails", "malformed", "no_table", "v1"}

CareerStats == {"fails", "malformed", "v1"}

ApexSessions == {"fails", "v1"}

\* the ApexAnalytics cache a run starts on: empty, or filled to its
\* capacity by earlier fetches of a driver's profile and of the standings
FetchStartKeys ==
    { <<>> }
    \cup { <<Apex_fetch_driver_profile_cache_key(d),
             Apex_fetch_driver_standings_cache_key(y)>> :
              d \in DriverIds, y \in Years }

\* a memory tier of Beta3 on the keys of the fetch functions
Beta3FetchObject == [Beta3Object EXCEPT !.memory_cache = FetchDict]

InitFetch ==
    /\ now = 0
    /\ memory_cache = <<>>
    /\ beta3_memory_cache = EmptyDict
    /\ faults = 0
    /\ last = NoFetch
    /\ lastSet = NeverSet
    /\ variant \in Variants
    /\ watch = NoKey
    /\ threads = [t \in Threads |-> Worker(NoObject)]
    /\ IF variant = "beta3"
       THEN /\ heap = [instance |-> 1,
                       objects |-> <<Beta3FetchObject, Beta3FetchObject>>]
            /\ disk = [f \in FetchFiles |-> NoFile]
       ELSE \E ks \in FetchStartKeys :
               /\ heap = [instance |-> 1, objects |-> <<ApexObject(ks)>>]
               /\ disk = StartDisk(FetchFiles, ks)

\* a worker may call a fetch function: it has the calls of get and of set
\* left
FetchStarts(t) ==
    /\ threads[t].pc = "idle"
    /\ threads[t].calls + 2 <= MaxCalls

\* the thread as it enters the function fn, which works on the object
\* cache
Fetching(t, fn, cache) ==
    [Idle(threads[t], NoError) EXCEPT !.fn = fn, !.obtained = cache,
        !.since = IF OthersIdle(t) THEN last.count ELSE NotLone]

\* a function of Beta3 is called: cache.get(cache_key) on the object it
\* works on, the one get_cache() finds in _global_cache or the one of
\* fastf1_utils
Beta3_fetch(t, fn, cache, cache_key) ==
    /\ FetchStarts(t)
    /\ Step(t, Beta3_get_43(Fetching(t, fn, cache),
                            heap.objects[cache].memory_cache, cache_key))
    /\ UNCHANGED <<heap, disk, faults, now, Fixed>>

\* a function of ApexAnalytics is called: get_cache() calls
\* CacheManager(), which finds the instance initialised and returns it
\* unchanged, and cache.get(cache_key)
Apex_fetch(t, fn, cache_key) ==
    /\ FetchStarts(t)
    /\ Step(t, Apex_get_38(Fetching(t, fn, heap.instance),
                           heap.objects[heap.instance].memory_cache, cache_key,
                           TRUE))
    /\ UNCHANGED <<heap, disk, faults, now, Fixed>>

\* the thread waits in the request of fn
Requests(t, fn) == threads[t].pc = "request" /\ threads[t].fn = fn

\* the function returns ret, or raises, without a call of cache.set
FetchReturns(t, ret, failed) ==
    Finish(threads, t, threads[t], ret, NoError, NoneVal, TRUE, failed)

FetchRaises(t, exception, failed) ==
    Finish(threads, t, threads[t], NoneVal, exception, NoneVal, TRUE, failed)

\* Beta3 api_utils.fetch_race_results(year, race_name): lines 22-26
FetchRaceResults(t, year, race_name) ==
    /\ variant = "beta3"
    /\ Beta3_fetch(t, "fetch_race_results", heap.instance,
                   Beta3_fetch_race_results_cache_key(year, race_name))

\* as the request of fetch_race_results, but a failed request leaves the
\* empty list in the memory tier
FetchRaceResults43_caches_failure(t, net) ==
    /\ variant = "beta3"
    /\ Requests(t, "fetch_race_results")
    /\ IF net = "fails"
       THEN /\ FetchReturns(t, EmptyList, RequestRaised)
            /\ StoreSelf(t, [SelfMemory(t) EXCEPT ![threads[t].key] =
                                Entry(EmptyList, now)], EmptyTable)
       ELSE /\ UNCHANGED heap
            /\ IF net = "malformed" THEN FetchRaises(t, "KeyError", ResponseUnparsed)
               ELSE IF net = "no_table" THEN FetchReturns(t, EmptyList, NotFailed)
               ELSE Step(t, Beta3_set_81(threads[t], threads[t].key, net))
    /\ UNCHANGED <<disk, faults, now, Fixed>>

\* lines 43-74: the answer of requests.get.  RequestException returns []
\* (line 74); a row without a field raises KeyError, which the function
\* does not catch; no race returns [] (line 50); else the results, which
\* may be none, are stored (line 68: timestamp = datetime.now() of set)
FetchRaceResults43(t, net) ==
    /\ variant = "beta3"
    /\ Requests(t, "fetch_race_results")
    /\ IF net = "fails" THEN FetchReturns(t, EmptyList, RequestRaised)
       ELSE IF net = "malformed" THEN FetchRaises(t, "KeyError", ResponseUnparsed)
       ELSE IF net = "no_table" THEN FetchReturns(t, EmptyList, NotFailed)
       ELSE Step(t, Beta3_set_81(threads[t], threads[t].key, net))
    /\ UNCHANGED <<heap, disk, faults, now, Fixed>>

\* Beta3 api_utils.fetch_driver_standings(year, round_number): lines 87-91
Beta3FetchDriverStandings(t, year, round_number) ==
    /\ variant = "beta3"
    /\ Beta3_fetch(t, "fetch_driver_standings", heap.instance,
                   Beta3_fetch_driver_standings_cache_key(year, round_number))

\* lines 101-130: RequestException returns [] (line 130), no standings
\* list returns [] (line 108), else the standings are stored (line 124)
Beta3FetchDriverStandings101(t, net) ==
    /\ variant = "beta3"
    /\ Requests(t, "fetch_driver_standings")
    /\ IF net = "fails" THEN FetchReturns(t, EmptyList, RequestRaised)
       ELSE IF net = "malformed" THEN FetchRaises(t, "KeyError", ResponseUnparsed)
       ELSE IF net = "no_table" THEN FetchReturns(t, EmptyList, NotFailed)
       ELSE Step(t, Beta3_set_81(threads[t], threads[t].key, net))
    /\ UNCHANGED <<heap, disk, faults, now, Fixed>>

\* Beta3 api_utils.fetch_constructor_standings(year, round_number):
\* lines 143-146
FetchConstructorStandings(t, year, round_number) ==
    /\ variant = "beta3"
    /\ Beta3_fetch(t, "fetch_constructor_standings", heap.instance,
                   Beta3_fetch_constructor_standings_cache_key(year, round_number))

\* lines 156-182: RequestException returns [] (line 182), no standings
\* list returns [] (line 163), else the standings are stored (line 176)
FetchConstructorStandings156(t, net) ==
    /\ variant = "beta3"
    /\ Requests(t, "fetch_constructor_standings")
    /\ IF net = "fails" THEN FetchReturns(t, EmptyList, RequestRaised)
       ELSE IF net = "malformed" THEN FetchRaises(t, "KeyError", ResponseUnparsed)
       ELSE IF net = "no_table" THEN FetchReturns(t, EmptyList, NotFailed)
       ELSE Step(t, Beta3_set_81(threads[t], threads[t].key, net))
    /\ UNCHANGED <<heap, disk, faults, now, Fixed>>

\* Beta3 api_utils.get_race_schedule(year): lines 246-249
GetRaceSchedule(t, year) ==
    /\ variant = "beta3"
    /\ Beta3_fetch(t, "get_race_schedule", heap.instance,
                   Beta3_get_race_schedule_cache_key(year))

\* lines 256-279: RequestException returns [] (line 279); else the
\* schedule, empty when the response has no race, is stored (line 273)
GetRaceSchedule256(t, net) ==
    /\ variant = "beta3"
    /\ Requests(t, "get_race_schedule")
    /\ IF net = "fails" THEN FetchReturns(t, EmptyList, RequestRaised)
       ELSE IF net = "malformed" THEN FetchRaises(t, "KeyError", ResponseUnparsed)
       ELSE Step(t, Beta3_set_81(threads[t], threads[t].key, net))
    /\ UNCHANGED <<heap, disk, faults, now, Fixed>>

\* Beta3 fastf1_utils.fetch_session_data(year, race_name), on the
\* CacheManager of the module: lines 29-32
FetchSessionData(t, year, race_name) ==
    /\ variant = "beta3"
    /\ Beta3_fetch(t, "fetch_session_data", fastf1_utils_cache_manager,
                   Beta3_fetch_session_data_cache_key(year, race_name))

\* lines 37-43: an exception of fastf1.get_session or session.load()
\* leaves the function; else the session is stored (line 41)
FetchSessionData37(t, net) ==
    /\ variant = "beta3"
    /\ Requests(t, "fetch_session_data")
    /\ IF net = "fails" THEN FetchRaises(t, "Exception", RequestRaised)
       ELSE Step(t, Beta3_set_81(threads[t], threads[t].key, net))
    /\ UNCHANGED <<heap, disk, faults, now, Fixed>>

\* ApexAnalytics api_utils.fetch_driver_profile(driver_id): lines 13-17
FetchDriverProfile(t, driver_id) ==
    /\ variant = "apex"
    /\ Apex_fetch(t, "fetch_driver_profile",
                  Apex_fetch_driver_profile_cache_key(driver_id))

\* lines 23-52: any exception, of the request or of the parsing of the
\* response, returns {} (line 52), no driver returns {} (line 30), else
\* the profile is stored (line 47)
FetchDriverProfile23(t, net) ==
    /\ variant = "apex"
    /\ Requests(t, "fetch_driver_profile")
    /\ IF net = "fails" THEN FetchReturns(t, EmptyProfile, RequestRaised)
       ELSE IF net = "malformed"
       THEN FetchReturns(t, EmptyProfile, ResponseUnparsed)
       ELSE IF net = "no_table" THEN FetchReturns(t, EmptyProfile, NotFailed)
       ELSE Step(t, Apex_set_66(threads[t], threads[t].key, net, TRUE))
    /\ UNCHANGED <<heap, disk, faults, now, Fixed>>

\* ApexAnalytics api_utils.fetch_driver_career_stats(driver_id):
\* lines 56-60
FetchDriverCareerStats(t, driver_id) ==
    /\ variant = "apex"
    /\ Apex_fetch(t, "fetch_driver_career_stats",
                  Apex_fetch_driver_career_stats_cache_key(driver_id))

\* lines 66-85, the request of the driver's standings: an exception of
\* the request, or of int() and float() on a row of the response (lines
\* 80-81), returns {} (line 137); else the function goes on to its second
\* request
FetchDriverCareerStats66(t, net) ==
    /\ variant = "apex"
    /\ Requests(t, "fetch_driver_career_stats")
    /\ IF net = "fails" THEN FetchReturns(t, EmptyProfile, RequestRaised)
       ELSE IF net = "malformed"
       THEN FetchReturns(t, EmptyProfile, ResponseUnparsed)
       ELSE Goto(t, "request_87")
    /\ UNCHANGED <<heap, disk, faults, now, Fixed>>

\* lines 87-137, the request of the driver's results: an exception of
\* the request, or of int() on the position of a row (line 106), returns
\* {} (line 137), else the statistics are stored (line 132)
FetchDriverCareerStats87(t, net) ==
    /\ variant = "apex"
    /\ threads[t].pc = "request_87"
    /\ IF net = "fails" THEN FetchReturns(t, EmptyProfile, RequestRaised)
       ELSE IF net = "malformed"
       THEN FetchReturns(t, EmptyProfile, ResponseUnparsed)
       ELSE Step(t, Apex_set_66(threads[t], threads[t].key, net, TRUE))
    /\ UNCHANGED <<heap, disk, faults, now, Fixed>>

\* ApexAnalytics api_utils.fetch_driver_standings(year): lines 175-178
FetchDriverStandings(t, year) ==
    /\ variant = "apex"
    /\ Apex_fetch(t, "fetch_driver_standings",
                  Apex_fetch_driver_standings_cache_key(year))

\* lines 183-210: any exception, of the request or of the parsing of a
\* row, returns [] (line 210), no standings list returns [] (line 189),
\* else the standings are stored (line 206)
FetchDriverStandings183(t, net) ==
    /\ variant = "apex"
    /\ Requests(t, "fetch_driver_standings")
    /\ IF net = "fails" THEN FetchReturns(t, EmptyList, RequestRaised)
       ELSE IF net = "malformed"
       THEN FetchReturns(t, EmptyList, ResponseUnparsed)
       ELSE IF net = "no_table" THEN FetchReturns(t, EmptyList, NotFailed)
       ELSE Step(t, Apex_set_66(threads[t], threads[t].key, net, TRUE))
    /\ UNCHANGED <<heap, disk, faults, now, Fixed>>

\* ApexAnalytics api_utils.fetch_constructor_profile(constructor_id):
\* lines 214-218
FetchConstructorProfile(t, constructor_id) ==
    /\ variant = "apex"
    /\ Apex_fetch(t, "fetch_constructor_profile",
                  Apex_fetch_constructor_profile_cache_key(constructor_id))

\* lines 224-246: any exception, of the request or of the parsing of the
\* response, returns {} (line 246), no constructor returns {} (line 231),
\* else the profile is stored (line 241)
FetchConstructorProfile224(t, net) ==
    /\ variant = "apex"
    /\ Requests(t, "fetch_constructor_profile")
    /\ IF net = "fails" THEN FetchReturns(t, EmptyProfile, RequestRaised)
       ELSE IF net = "malformed"
       THEN FetchReturns(t, EmptyProfile, ResponseUnparsed)
       ELSE IF net = "no_table" THEN FetchReturns(t, EmptyProfile, NotFailed)
       ELSE Step(t, Apex_set_66(threads[t], threads[t].key, net, TRUE))
    /\ UNCHANGED <<heap, disk, faults, now, Fixed>>

\* ApexAnalytics fastf1_utils.fetch_session_data(year, race,
\* session_type): lines 33-38
ApexFetchSessionData(t, year, race, session_type) ==
    /\ variant = "apex"
    /\ Apex_fetch(t, "fetch_session_data",
                  Apex_fetch_session_data_cache_key(year, race, session_type))

\* lines 42-50: an exception of FastF1 is raised again as
\* Exception("Failed to load session: ...") (line 50), else the session is
\* stored (line 47)
ApexFetchSessionData43(t, net) ==
    /\ variant = "apex"
    /\ Requests(t, "fetch_session_data")
    /\ IF net = "fails" THEN FetchRaises(t, "Exception", RequestRaised)
       ELSE Step(t, Apex_set_66(threads[t], threads[t].key, net, TRUE))
    /\ UNCHANGED <<heap, disk, faults, now, Fixed>>

NextFetch ==
    \/ Tick
    \/ \E t \in Threads, y \in Years, r \in ResultsRaces :
          FetchRaceResults(t, y, r)
    \/ \E t \in Threads, net \in Results : FetchRaceResults43(t, net)
    \/ \E t \in Threads, y \in Years, n \in RoundNumbers :
          Beta3FetchDriverStandings(t, y, n)
    \/ \E t \in Threads, net \in Beta3Standings :
          Beta3FetchDriverStandings101(t, net)
    \/ \E t \in Threads, y \in Years, n \in RoundNumbers :
          FetchConstructorStandings(t, y, n)
    \/ \E t \in Threads, net \in Beta3Standings :
          FetchConstructorStandings156(t, net)
    \/ \E t \in Threads, y \in Years : GetRaceSchedule(t, y)
    \/ \E t \in Threads, net \in Schedules : GetRaceSchedule256(t, net)
    \/ \E t \in Threads, y \in Years, r \in RaceNames :
          FetchSessionData(t, y, r)
    \/ \E t \in Threads, net \in Sessions : FetchSessionData37(t, net)
    \/ \E t \in Threads, d \in DriverIds : FetchDriverProfile(t, d)
    \/ \E t \in Threads, net \in Profiles : FetchDriverProfile23(t, net)
    \/ \E t \in Threads, d \in DriverIds : FetchDriverCareerStats(t, d)
    \/ \E t \in Threads, net \in CareerStats : FetchDriverCareerStats66(t, net)
    \/ \E t \in Threads, net \in CareerStats : FetchDriverCareerStats87(t, net)
    \/ \E t \in Threads, y \in Years : FetchDriverStandings(t, y)
    \/ \E t \in Threads, net \in Standings : FetchDriverStandings183(t, net)
    \/ \E t \in Threads, c \in ConstructorIds : FetchConstructorProfile(t, c)
    \/ \E t \in Threads, net \in Profiles : FetchConstructorProfile224(t, net)
    \/ \E t \in Threads, y \in Years, r \in ApexRaces, st \in SessionTypes :
          ApexFetchSessionData(t, y, r, st)
    \/ \E t \in Threads, net \in ApexSessions : ApexFetchSessionData43(t, net)
    \/ \E t \in Threads : Get39(t)
    \/ \E t \in Threads : Get40(t)
    \/ \E t \in Threads : Get43(t)
    \/ \E t \in Threads : Get46(t)
    \/ \E t \in Threads : Get50(t)
    \/ \E t \in Threads : Get51(t)
    \/ \E t \in Threads : Get53(t)
    \/ \E t \in Threads, uok \in BOOLEAN : Get54(t, uok)
    \/ \E t \in Threads : SetMemoryCache129(t)
    \/ \E t \in Threads : SetMemoryCache130(t)
    \/ \E t \in Threads : SetMemoryCache130Next(t)
    \/ \E t \in Threads : SetMemoryCache131(t)
    \/ \E t \in Threads : SetMemoryCache133(t)
    \/ \E t \in Threads, wr \in WriteOutcomes : Set70(t, wr)
    \/ \E t \in Threads, wr \in WriteOutcomes : Set74(t, wr)
    \/ \E t \in Threads : Beta3Get44(t)
    \/ \E t \in Threads : Beta3Get45(t)
    \/ \E t \in Threads : Beta3Get48(t)
    \/ \E t \in Threads : Beta3Get53(t)
    \/ \E t \in Threads : Beta3Get57(t)
    \/ \E t \in Threads : Beta3Get58(t)
    \/ \E t \in Threads : Beta3Get61(t)
    \/ \E t \in Threads, uok \in BOOLEAN : Beta3Get62(t, uok)
    \/ \E t \in Threads : Beta3Get66(t)
    \/ \E t \in Threads : Beta3Set84(t)
    \/ \E t \in Threads, wr \in WriteOutcomes : Beta3Set90(t, wr)
    \/ \E t \in Threads, wr \in WriteOutcomes : Beta3Set91(t, wr)

SpecFetch == InitFetch /\ [][NextFetch]_vars

\* C19: each cached fetch function (get_race_schedule, fetch_session_data,
\* fetch_driver_standings) is cache-aside: after a call that fetched and
\* stored its result, a second call with the same parameters within ttl of
\* that record, no other call running beside either of them, returns the
\* stored result without a second request.
C19_CacheAside ==
    [][ ( /\ last.op # "init"
          /\ last.data # NoneVal
          /\ last.alone
          /\ last' # last
          /\ last'.alone
          /\ last'.op = last.op
          /\ last'.key = last.key
          /\ last'.t - last.at < TTL )
        => (last'.ret = last.data /\ ~last'.flag) ]_vars

\* the memory tier the fetch function op works on, after the step
FetchTierAfter(op) ==
    IF variant = "beta3" /\ op = "fetch_session_data"
    THEN heap'.objects[fastf1_utils_cache_manager].memory_cache
    ELSE heap'.objects[heap'.instance].memory_cache

\* the cache lookup every fetch function starts with, run without another
\* thread beside it
FetchLookup(mc, d, t, cache_key, unlinkOk) ==
    IF variant = "apex" THEN Apex_get(mc, d, t, cache_key, TRUE, unlinkOk)
    ELSE Beta3_get(mc, d, t, cache_key, unlinkOk)

\* the step ends a call of a fetch function whose request raised
RequestFailed == last' # last /\ last'.failed = RequestRaised

\* the step ends a call of a fetch function whose request raised or whose
\* response could not be parsed
FailedFetch == last' # last /\ last'.failed # NotFailed

\* the next call of the function with the same parameters, now or later
\* and with no other call beside it, issues the request
FetchesAgain ==
    \A t \in now..MaxTime, uok \in BOOLEAN :
       ~Cached(FetchLookup(FetchTierAfter(last'.op), disk', t, last'.key,
                           uok).ret)

\* C29 as stated: when the request of a cached fetch function raises,
\* cache.set is not called and both cache tiers are left unchanged, so the
\* next call with the same parameters performs the fetch again.
C29_FailedFetchNotCached ==
    [][ (RequestFailed /\ last'.alone) =>
           /\ last'.data = NoneVal
           /\ heap' = heap
           /\ disk' = disk
           /\ ~last'.touched
           /\ FetchesAgain ]_vars

\* C29 as amended: when the request of a cached fetch function raises, or
\* its response cannot be parsed, cache.set is not called and the failure
\* changes neither cache tier:
\* they are left as the cache lookup at the start of the function left
\* them (it may have dropped the expired memory entry and the expired
\* record of the key, or promoted an empty result in Beta3), so the next
\* call with the same parameters, if no other call stored meanwhile,
\* performs the fetch again.
C29_FailedFetchLeavesLookupState ==
    [][ FailedFetch =>
           /\ last'.data = NoneVal
           /\ heap' = heap
           /\ disk' = disk
           /\ last'.alone => FetchesAgain ]_vars

\* FastF1 has just failed in fetch_session_data, no other call running
\* beside it, while a record of an earlier fetch is still in the store
C29_Witness ==
    /\ last.op = "fetch_session_data" /\ last.failed = RequestRaised
    /\ last.raised
    /\ last.alone
    /\ \E f \in FetchFiles : disk[f].kind = "rec"

(***************************************************************************)
(* Claims about get: promotion, expiry and its effect on the files         *)
(***************************************************************************)

MemoryEntryAfter(k) ==
    IF variant = "apex" THEN Lookup(memory_cache', k) ELSE beta3_memory_cache'[k]

\* the ApexAnalytics memory tier as the promotion finds it: the expired
\* entry of k, if get looked at the memory tier, is gone
BeforePromotion(k, use_memory) ==
    IF use_memory /\ HasKey(memory_cache, k) THEN DictDel(memory_cache, k)
    ELSE memory_cache

\* the promotion of k evicted the oldest entry if the tier was at capacity,
\* and kept every other entry as it was
PromotionEvicts(k, use_memory) ==
    LET m1 == BeforePromotion(k, use_memory)
        full == Len(m1) >= max_memory_items
    IN  /\ Len(memory_cache') <= max_memory_items
        /\ (full /\ OldestKey(m1) # k) => ~HasKey(memory_cache', OldestKey(m1))
        /\ \A i \in 1..Len(m1) :
              (m1[i].key # k /\ ~(full /\ m1[i].key = OldestKey(m1)))
                  => (HasKey(memory_cache', m1[i].key)
                      /\ Lookup(memory_cache', m1[i].key) = m1[i])

\* C21: promotion.  When get(k) does not find k fresh in the memory tier
\* (or does not look there) and the record file of k holds a record that
\* is younger than ttl, or of age ttl, which get takes for fresh as well,
\* get returns the record's value, and afterwards the memory tier holds k
\* with the record's value and the record's timestamp, not the time of the
\* get; in ApexAnalytics the oldest entry was evicted first if the tier was
\* full.
C21_Promotion ==
    [][ ( /\ IsGet
          /\ ~last'.flag \/ ~FreshInMemory(last'.key)
          /\ disk[FileOf(last'.key)].kind = "rec"
          /\ now - disk[FileOf(last'.key)].timestamp <= TTL )
        => ( /\ last'.ret = disk[FileOf(last'.key)].data
             /\ ~last'.raised
             /\ InMemoryAfter(last'.key)
             /\ MemoryEntryAfter(last'.key).data = disk[FileOf(last'.key)].data
             /\ MemoryEntryAfter(last'.key).timestamp
                    = disk[FileOf(last'.key)].timestamp
             /\ disk' = disk
             /\ variant = "apex" => PromotionEvicts(last'.key, last'.flag) ) ]_vars

\* a get that did not look at the memory tier has returned a record's value
\* at a time later than the record's timestamp, and the memory tier, now
\* full, holds the key with that earlier timestamp
C21_Witness ==
    /\ variant = "apex"
    /\ last.op = "get"
    /\ ~last.flag
    /\ last.ret \in Values
    /\ Len(memory_cache) = max_memory_items
    /\ HasKey(memory_cache, last.key)
    /\ Lookup(memory_cache, last.key).timestamp < last.t
    /\ Lookup(memory_cache, last.key).data = last.ret

\* C22 as stated: get never prolongs an entry's life.  Once set(k, v) has
\* been the last set of k, a get(k) leaves no memory entry of k stamped
\* later than that set, and every get(k) more than ttl after it returns
\* None.
C22_GetNeverProlongs ==
    [][ (IsGet /\ last'.key = watch /\ lastSet.data # NoneVal)
        => /\ InMemoryAfter(watch)
                  => MemoryEntryAfter(watch).timestamp <= lastSet.t
           /\ now - lastSet.t > TTL => last'.ret = NoneVal ]_vars

\* C22 as amended: the same, of a key to whose record file no other key is
\* mapped.
C22_GetNeverProlongsUnshared ==
    [][ (IsGet /\ last'.key = watch /\ lastSet.data # NoneVal
         /\ SharesNoFile(watch))
        => /\ InMemoryAfter(watch)
                  => MemoryEntryAfter(watch).timestamp <= lastSet.t
           /\ now - lastSet.t > TTL => last'.ret = NoneVal ]_vars

\* a get that did not look at the memory tier has returned None for a key
\* set more than ttl ago, whose file no other key shares, in a run without
\* faults
C22_Witness ==
    /\ last.op = "get" /\ last.key = watch /\ ~last.flag
    /\ last.ret = NoneVal
    /\ SharesNoFile(watch)
    /\ lastSet.data # NoneVal /\ now - lastSet.t > TTL
    /\ faults = 0

\* C23 as stated: frame of get on disk.  A get(k) leaves the record of
\* every other key as it is, and the record of k it either leaves as it is
\* or, when it is older than ttl, deletes.
C23_GetDiskFrameOfKeys ==
    [][ IsGet =>
        LET f == FileOf(last'.key)
        IN  /\ \A k2 \in Keys \ {last'.key} : disk'[FileOf(k2)] = disk[FileOf(k2)]
            /\ \/ disk'[f] = disk[f]
               \/ /\ disk[f].kind = "rec"
                  /\ now - disk[f].timestamp > TTL
                  /\ disk'[f] = NoFile ]_vars

\* C23 as amended: a get(k) changes no record file other than that of k,
\* so that it leaves the record of every key mapped to another file as it
\* is; the file of k, which is also the record of the keys mapped to the
\* same file, it either leaves as it is or, when it holds a record older
\* than ttl, deletes.
C23_GetDiskFrame ==
    [][ IsGet =>
        LET f == FileOf(last'.key)
        IN  /\ \A g \in Files \ {f} : disk'[g] = disk[g]
            /\ \/ disk'[f] = disk[f]
               \/ /\ disk[f].kind = "rec"
                  /\ now - disk[f].timestamp > TTL
                  /\ disk'[f] = NoFile ]_vars

\* a get has returned None and the file of its key is gone, while the
\* directory still holds the expired record of another file and no fault
\* has happened
C23_Witness ==
    /\ last.op = "get" /\ last.ret = NoneVal
    /\ disk[FileOf(last.key)] = NoFile
    /\ ~InMemory(last.key)
    /\ faults = 0
    /\ \E g \in Files : disk[g].kind = "rec" /\ now - disk[g].timestamp > TTL

(***************************************************************************)
(* Claims about the isolation of keys                                      *)
(***************************************************************************)

\* what get(k) returns in the present state, and what it returns from the
\* record file alone
WouldGet(k) ==
    IF variant = "apex"
    THEN Apex_get(memory_cache, disk, now, k, TRUE, TRUE).ret
    ELSE Beta3_get(beta3_memory_cache, disk, now, k, TRUE).ret

WouldGetFromDisk(k) ==
    IF variant = "apex"
    THEN Apex_get(<<>>, disk, now, k, FALSE, TRUE).ret
    ELSE Beta3_get(EmptyDict, disk, now, k, TRUE).ret

\* the step leaves the memory entry and the record file of k as they are,
\* and with them what get(k) returns
SameEntry(k) ==
    /\ disk'[FileOf(k)] = disk[FileOf(k)]
    /\ InMemoryAfter(k) = InMemory(k)
    /\ InMemory(k) => MemoryEntryAfter(k) = MemoryEntry(k)

\* the step is a set or a promoting get of the key k2, a delete of k2; a
\* run that watches a key sees such a call on another key as "other"
InsertionOf(k2) ==
    \/ \E v \in Values, p \in BOOLEAN, wr \in WriteOutcomes :
          ApexSet(k2, v, p, wr) \/ Beta3Set(k2, v, wr)
    \/ \E um \in BOOLEAN, uok \in BOOLEAN :
          ApexGet(k2, um, uok) \/ Beta3Get(k2, uok)

DeletionOf(k2) ==
    \E uok \in BOOLEAN : ApexDelete(k2, uok) \/ Beta3Delete(k2, uok)

\* C24 as stated: key isolation.  For distinct keys k1 and k2, a set, a
\* delete or a get of k2 (which may remove the expired k2) does not change
\* what get(k1) returns, and get(k1) returns only a value that was passed
\* to set with the key k1, or None.
C24_KeyIsolation ==
    [][ /\ \/ last'.op # "other" \/ now' # now \/ SameEntry(watch)
           \/ WouldGet(watch)' = WouldGet(watch)
           \/ \A k2 \in Keys \ {watch} : ~(InsertionOf(k2) \/ DeletionOf(k2))
        /\ (IsGet /\ last'.key = watch)
              => last'.ret \in lastSet.values \cup {NoneVal} ]_vars

\* C24 as amended: for keys k1 and k2 mapped to different record files, a
\* delete of k2 does not change what get(k1) returns; a set or a get of k2
\* does not change it either, except that in ApexAnalytics it may evict k1
\* from the memory tier, after which get(k1) returns what the record file of
\* k1 gives; and get(k1), k1 sharing its file with no key, returns only a
\* value that was passed to set with the key k1, or None.
C24_IsolationOfUnsharedKeys ==
    [][ /\ \/ last'.op # "other" \/ now' # now \/ SameEntry(watch)
           \/ WouldGet(watch)' = WouldGet(watch)
           \/ \A k2 \in Keys \ {watch} :
                 FileOf(k2) # FileOf(watch) =>
                     /\ ~DeletionOf(k2)
                     /\ InsertionOf(k2) =>
                           /\ variant = "apex"
                           /\ InMemory(watch) /\ ~InMemoryAfter(watch)
                           /\ WouldGet(watch)' = WouldGetFromDisk(watch)
        /\ (IsGet /\ last'.key = watch /\ SharesNoFile(watch))
              => last'.ret \in lastSet.values \cup {NoneVal} ]_vars

\* the watched key, which shares its file with no key and was set with one
\* value only, is in the memory tier only and readable, while the store
\* holds the record of another key, written with the other value, and the
\* last call was on another key
C24_Witness ==
    /\ SharesNoFile(watch)
    /\ last.op = "other"
    /\ WouldGet(watch) \in Values
    /\ lastSet.values = {WouldGet(watch)}
    /\ WouldGetFromDisk(watch) = NoneVal
    /\ \E k2 \in Keys \ {watch} :
          /\ disk[FileOf(k2)].kind = "rec"
          /\ disk[FileOf(k2)].data \notin lastSet.values
    /\ faults = 0

(***************************************************************************)
(* The expiry sweep of Beta3.  clear_expired visits the *.pkl files of the *)
(* cache directory in the order glob yields them, which the file system    *)
(* chooses; order is that order and stuck the files whose unlink fails.    *)
(***************************************************************************)

\* the orders in which glob may yield the files S
Orders(S) ==
    {o \in [1..Cardinality(S) -> S] : \A i, j \in DOMAIN o : o[i] = o[j] => i = j}

AllOrders == UNION {Orders(S) : S \in SUBSET Files}

\* lines 129-136: the file is removed when its record is older than ttl
\* (line 132) or cannot be read (the except clause)
Beta3_sweep_removes(d, t, f) ==
    \/ d[f].kind = "corrupt"
    \/ d[f].kind = "rec" /\ Beta3_record_expired(t, d[f].timestamp)

\* the loop of lines 127-136.  An unlink that fails at line 133 raises into
\* the except clause, whose own unlink (line 136) is in no try: the
\* exception leaves clear_expired and the files not yet visited stay
RECURSIVE Beta3_sweep(_, _, _, _)
Beta3_sweep(d, t, order, stuck) ==
    IF order = <<>> THEN [disk |-> d, raised |-> FALSE]
    ELSE LET f == Head(order)
         IN  IF ~Beta3_sweep_removes(d, t, f)
             THEN Beta3_sweep(d, t, Tail(order), stuck)
             ELSE IF f \in stuck THEN [disk |-> d, raised |-> TRUE]
             ELSE Beta3_sweep([d EXCEPT ![f] = NoFile], t, Tail(order), stuck)

\* as clear_expired, but sweeping away the fresh records too
Beta3_clear_expired_and_fresh(mc, d, t, order, stuck) ==
    LET visited == {order[i] : i \in DOMAIN order}
        raised  == visited \cap stuck # {}
    IN  Result(mc, [f \in DOMAIN d |-> IF f \in visited \ stuck THEN NoFile ELSE d[f]],
               NoneVal, raised, IF raised THEN "unlink_error" ELSE "swept")

Beta3_clear_expired(mc, d, t, order, stuck) ==
    LET r == Beta3_sweep(d, t, order, stuck)
    IN  Result(mc, r.disk, NoneVal, r.raised,
               IF r.raised THEN "unlink_error" ELSE "swept")

Beta3ClearExpired(order, stuck) ==
    /\ variant = "beta3"
    /\ order \in Orders(Glob(disk))
    /\ stuck \subseteq {f \in Glob(disk) : Beta3_sweep_removes(disk, now, f)}
    /\ faults + Cardinality(stuck) <= MaxFaults
    /\ faults' = faults + Cardinality(stuck)
    /\ LET r == Beta3_clear_expired(beta3_memory_cache, disk, now, order, stuck)
       IN  /\ beta3_memory_cache' = r.mem
           /\ disk' = r.disk
           /\ last' = Observe(Call("clear_expired", NoKey, NoneVal, FALSE, r, -1))
    /\ UNCHANGED <<threads, heap, variant, now, memory_cache, watch, lastSet>>

InitSweep ==
    /\ Init
    /\ variant = "beta3"

NextSweep ==
    \/ Tick
    \/ \E f \in Files : Corrupt(f)
    \/ Beta3Construct
    \/ \E k \in Keys, uok \in BOOLEAN : Beta3Get(k, uok)
    \/ \E k \in Keys, v \in Values, wr \in WriteOutcomes : Beta3Set(k, v, wr)
    \/ \E k \in Keys, uok \in BOOLEAN : Beta3Delete(k, uok)
    \/ \E stuck \in SUBSET Files : Beta3ClearAll(stuck)
    \/ \E stuck \in SUBSET Files, order \in AllOrders :
          Beta3ClearExpired(order, stuck)

SpecSweep == InitSweep /\ [][NextSweep]_vars

(***************************************************************************)
(* Claims about the expiry sweep                                           *)
(***************************************************************************)

\* the step is a call of clear_expired
IsClearExpired ==
    /\ last'.op = "clear_expired"
    /\ \E stuck \in SUBSET Files, order \in AllOrders :
          Beta3ClearExpired(order, stuck)

\* C26: clear_expired removes every persisted record whose age exceeds ttl
\* and every record that cannot be parsed, leaves every fresh parseable
\* record unchanged, and returns without raising, whatever the mix of
\* fresh, expired and corrupt records in the cache directory.
C26_ExpirySweep ==
    [][ IsClearExpired =>
           /\ ~last'.raised
           /\ \A f \in Files :
                 IF Beta3_sweep_removes(disk, now, f)
                 THEN disk'[f] = NoFile
                 ELSE disk'[f] = disk[f] ]_vars

\* the files a sweep at time t removes if it can, and the directory d
\* without the files X
DeadFiles(d, t) == {f \in Files : Beta3_sweep_removes(d, t, f)}

Without(d, X) == [f \in DOMAIN d |-> IF f \in X THEN NoFile ELSE d[f]]

\* d1 is d0 less some of the files that are dead at time t
SameButDead(d0, d1, t) == \E X \in SUBSET DeadFiles(d0, t) : d1 = Without(d0, X)

\* get(k) answers the same on the directories d0 and d1 under the memory
\* tier mc, and leaves the same memory tier and directories that again
\* differ in dead files only
SameAnswer(mc, d0, d1, t, k, unlinkOk) ==
    LET r0 == Beta3_get(mc, d0, t, k, unlinkOk)
        r1 == Beta3_get(mc, d1, t, k, unlinkOk)
    IN  /\ r1.ret = r0.ret
        /\ r1.raised = r0.raised
        /\ r1.mem = r0.mem
        /\ SameButDead(r0.disk, r1.disk, t)

\* C27: the sweep is a pure optimisation.  In every reachable state of the
\* Beta3 CacheManager, clear_expired leaves the memory tier alone and takes
\* away dead files only (expired or unreadable ones), and on two stores that
\* differ in dead files only get(k) returns the same result for every key k
\* and leaves two stores that again differ in dead files only; a dead file
\* stays dead as time passes, so get(k) returns the same whether or not the
\* sweep ran before it and the two stores answer every later get alike.
C27_SweepIsPureOptimisation ==
    [][ IsClearExpired =>
           /\ beta3_memory_cache' = beta3_memory_cache
           /\ SameButDead(disk, disk', now)
           /\ \A k \in Keys, uok \in BOOLEAN :
                 /\ SameAnswer(beta3_memory_cache, disk, disk', now, k, uok)
                 /\ \A X \in SUBSET DeadFiles(disk, now) :
                       SameAnswer(beta3_memory_cache, disk, Without(disk, X),
                                  now, k, uok) ]_vars

\* clear_expired has returned after removing the expired record of a key
\* whose expired memory entry is still there, and a fresh record is left
C27_Witness ==
    /\ last.op = "clear_expired" /\ ~last.raised
    /\ \E k \in Keys :
          /\ beta3_memory_cache[k].present
          /\ now - beta3_memory_cache[k].timestamp > TTL
          /\ disk[Beta3_get_cache_path(k)].kind = "none"
    /\ \E f \in Files : disk[f].kind = "rec" /\ ~Beta3_sweep_removes(disk, now, f)

(***************************************************************************)
(* Claims about reads that skip the memory tier                            *)
(***************************************************************************)

\* the memory entry of k is newer than the persisted record of k
MemoryNewerThanRecord(k) ==
    /\ InMemory(k)
    /\ disk[FileOf(k)].kind = "rec"
    /\ MemoryEntry(k).timestamp > disk[FileOf(k)].timestamp

\* C28: in the ApexAnalytics CacheManager get(k, use_memory=False) leaves
\* the memory entry of k unchanged when that entry is newer than the
\* persisted record of k, so that a following get(k) still returns the
\* value of that entry, the most recent set(k, .), while it is fresh.
C28_DiskReadKeepsNewerMemory ==
    [][ (/\ IsGet /\ variant = "apex" /\ ~last'.flag
         /\ MemoryNewerThanRecord(last'.key))
          => /\ InMemoryAfter(last'.key)
             /\ MemoryEntryAfter(last'.key) = MemoryEntry(last'.key)
             /\ FreshInMemory(last'.key)
                   => Apex_get(memory_cache', disk', now', last'.key, TRUE, TRUE).ret
                         = MemoryEntry(last'.key).data ]_vars

(***************************************************************************)
(* DataCache of the Dashboard UI: one dict, _store, from key to            *)
(* (timestamp, value), and no files.  heap holds the DataCache object;     *)
(* lastSet is the most recent set of the watched key that no clear()       *)
(* followed.                                                               *)
(***************************************************************************)

ttl_seconds == TTL

DataCache_init == [_store |-> EmptyDict]

\* lines 19-26: the entry is dropped when time.time() - timestamp is
\* greater than ttl_seconds, and returned otherwise
DataCache_get(store, t, key) ==
    LET entry == store[key]
    IN  IF ~entry.present THEN Result(store, disk, NoneVal, FALSE, "miss")
        ELSE IF t - entry.timestamp > ttl_seconds
        THEN Result([store EXCEPT ![key] = Absent], disk, NoneVal, FALSE, "expired")
        ELSE Result(store, disk, entry.data, FALSE, "hit")

\* line 30
DataCache_set(store, t, key, value) ==
    Result([store EXCEPT ![key] = Entry(value, t)], disk, NoneVal, FALSE, "stored")

\* line 34
DataCache_clear(store) == Result(EmptyDict, disk, NoneVal, FALSE, "cleared")

InitData ==
    /\ StartStore
    /\ variant = "dashboard"
    /\ watch \in Keys
    /\ threads = NoThreads
    /\ heap = DataCache_init

DataGet(key) ==
    /\ LET r == DataCache_get(heap._store, now, key)
       IN  /\ heap' = [heap EXCEPT !._store = r.mem]
           /\ last' = Call("get", key, NoneVal, FALSE, r, -1)
    /\ UNCHANGED <<threads, variant, now, memory_cache, beta3_memory_cache, disk,
                   faults, watch, lastSet>>

DataSet(key, value) ==
    /\ LET r == DataCache_set(heap._store, now, key, value)
       IN  /\ heap' = [heap EXCEPT !._store = r.mem]
           /\ last' = Call("set", key, value, FALSE, r, -1)
    /\ lastSet' = IF key = watch
                  THEN [data |-> value, t |-> now, failed |-> FALSE]
                  ELSE lastSet
    /\ UNCHANGED <<threads, variant, now, memory_cache, beta3_memory_cache, disk,
                   faults, watch>>

DataClear ==
    /\ LET r == DataCache_clear(heap._store)
       IN  /\ heap' = [heap EXCEPT !._store = r.mem]
           /\ last' = Call("clear", NoKey, NoneVal, FALSE, r, -1)
    /\ lastSet' = NeverSet
    /\ UNCHANGED <<threads, variant, now, memory_cache, beta3_memory_cache, disk,
                   faults, watch>>

NextData ==
    \/ Tick
    \/ \E k \in Keys : DataGet(k)
    \/ \E k \in Keys, v \in Values : DataSet(k, v)
    \/ DataClear

SpecData == InitData /\ [][NextData]_vars

(***************************************************************************)
(* Claims about DataCache                                                  *)
(***************************************************************************)

\* C30: after any sequence of set, get and clear, get(k) returns the value
\* of the most recent set(k, .) exactly when no clear() followed that set
\* and now - created_at < ttl_seconds; in every other case, an age equal to
\* ttl_seconds included, it returns None and _store holds no entry for k
\* afterwards.
C30_DataCacheTTL ==
    [][ (last'.op = "get" /\ last'.key = watch /\ DataGet(watch)) =>
           IF lastSet.data # NoneVal /\ now - lastSet.t < ttl_seconds
           THEN last'.ret = lastSet.data
           ELSE last'.ret = NoneVal /\ ~heap'._store[watch].present ]_vars

====
